---------------------------- MODULE Spec2Model ----------------------------
(***************************************************************************)
(* State-machine model of the faithconnect backend: the relational store   *)
(* (users, follows, posts, likes, saves, chats, messages, questions,       *)
(* notifications) and the HTTP handlers that mutate it.  One action per    *)
(* route handler; service functions are operators over the tables.         *)
(*                                                                         *)
(* Nullable columns are modelled as sequences of length at most one:       *)
(* None is <<>> and Some(v) is <<v>>.  Timestamps are integer instants of  *)
(* the clock `now`.                                                        *)
(***************************************************************************)
EXTENDS Integers, Sequences, FiniteSets, TLC

VARIABLES
    users,          \* users table: id -> row
    follows,        \* follows table: set of rows
    follow_seq,     \* last value of the follows.id sequence
    posts,          \* posts table: sequence of rows (index = id)
    post_likes,     \* post_likes table: set of rows, key (post_id, user_id)
    post_saves,     \* post_saves table: set of rows, key (post_id, user_id)
    comments,       \* comments table: sequence of rows (index = id)
    chats,          \* chats table: sequence of rows (index = id)
    messages,       \* messages table: sequence of rows (index = id)
    questions,      \* questions table: sequence of rows (index = id)
    notifications,  \* notifications table: sequence of rows (index = id)
    now,            \* the clock
    inflight,       \* send-first-message requests between lookup and insert
    last,           \* the last request served and its response
    run             \* observer: progress of a like,like,unlike,unlike run

vars == <<users, follows, follow_seq, posts, post_likes, post_saves, comments, chats,
          messages, questions, notifications, now, inflight, last, run>>

-----------------------------------------------------------------------------
(* Bounds of the model *)

MaxNotifications == 5
MaxMessages == 3
MaxPosts == 2
MaxQuestions == 3
MaxAnswers == 2
MaxComments == 1
QuietRows == 1
MaxTime == 1

-----------------------------------------------------------------------------
(* Values *)

None == <<>>
Some(v) == <<v>>

WORSHIPER == "worshiper"
LEADER == "leader"

HTTP_200_OK == 200
HTTP_201_CREATED == 201
HTTP_204_NO_CONTENT == 204
HTTP_400_BAD_REQUEST == 400
HTTP_403_FORBIDDEN == 403
HTTP_404_NOT_FOUND == 404
HTTP_500_INTERNAL_SERVER_ERROR == 500

MaxPageSize == 50

MessageTexts == {"hello"}
PostTexts == {"psalm"}
CommentTexts == {"amen"}
QuestionTexts == {"why"}
AnswerTexts == {"a", "b"}

Names == <<"w1", "w2", "l3", "l4">>

\* A users row as signup creates it.
User(id, role) ==
    [id |-> id, name |-> Names[id], role |-> role, is_active |-> TRUE,
     faith |-> None, bio |-> None, profile_photo |-> None]

Worshipers == {id \in DOMAIN users : users[id].role = WORSHIPER}
Leaders == {id \in DOMAIN users : users[id].role = LEADER}

\* Ids a path parameter can carry: every user id and one id that is no user.
AnyIds == DOMAIN users \cup {CHOOSE i \in 1..5 : i \notin DOMAIN users}

Range(s) == {s[i] : i \in DOMAIN s}

\* Row ids a path parameter can carry: every row of the table and one id past it.
AnyRowIds(table) == 1..(Len(table) + 1)

NoRequest == [op |-> "none", caller |-> 0, args |-> <<>>, text |-> "",
              status |-> 0, detail |-> "", ret |-> "", before |-> None]

Response(op, caller, args, text, status, detail, ret) ==
    [op |-> op, caller |-> caller, args |-> args, text |-> text,
     status |-> status, detail |-> detail, ret |-> ret, before |-> None]

\* What the client sees of a response: the status and the body.  The ret
\* field is what the service function returned to the route.
Visible(response) == <<response.status, response.detail>>

\* A response that also records the row as the request found it.
Overwrote(response, row) == [response EXCEPT !.before = Some(row)]

NoRun == [kind |-> "none", post_id |-> 0, user_id |-> 0, stage |-> 0,
          base |-> 0, had |-> FALSE]

-----------------------------------------------------------------------------
(* Notifications *)

\* create_notification: one row, always unread, appended to the table.
create_notification(table, user_id, type, message, reference_type, reference_id) ==
    Append(table,
           [id |-> Len(table) + 1,
            user_id |-> user_id,
            type |-> type,
            message |-> message,
            reference_type |-> reference_type,
            reference_id |-> reference_id,
            is_read |-> FALSE])

-----------------------------------------------------------------------------
(* Follows *)

FollowRows(table, worshiper_id, leader_id) ==
    {f \in table : f.worshiper_id = worshiper_id /\ f.leader_id = leader_id}

\* is_following: the existence check every follow gate uses.
is_following(table, worshiper_id, leader_id) ==
    FollowRows(table, worshiper_id, leader_id) # {}

\* The follows table without its unique constraint.
unique_worshiper_leader_absent(table, worshiper_id, leader_id) == TRUE

\* UniqueConstraint('worshiper_id', 'leader_id') of the follows table.
unique_worshiper_leader(table, worshiper_id, leader_id) ==
    FollowRows(table, worshiper_id, leader_id) = {}

\* follow_leader notifying the leader again for an edge that is already there.
follow_existing_notifying(caller, leader_id) ==
    /\ Len(notifications) < MaxNotifications
    /\ UNCHANGED <<follows, follow_seq>>
    /\ notifications' = create_notification(notifications, leader_id,
                            "new_follower",
                            <<users[caller].name, "started following you">>,
                            None, None)
    /\ last' = Response("follow_leader", caller, <<leader_id>>, "",
                        HTTP_200_OK, "Leader followed successfully",
                        "existing_follow")

\* follow_leader when the edge is already there: the row is returned as is.
follow_existing(caller, leader_id) ==
    /\ UNCHANGED <<follows, follow_seq, notifications>>
    /\ last' = Response("follow_leader", caller, <<leader_id>>, "",
                        HTTP_200_OK, "Leader followed successfully",
                        "existing_follow")

\* follow_leader notifying the leader of a follower only the first time.
follow_new_notifying_once(caller, leader_id) ==
    /\ unique_worshiper_leader(follows, caller, leader_id)
    /\ Len(notifications) < MaxNotifications
    /\ follow_seq' = follow_seq + 1
    /\ follows' = follows \cup {[id |-> follow_seq + 1,
                                 worshiper_id |-> caller,
                                 leader_id |-> leader_id]}
    /\ notifications' =
           IF \E i \in DOMAIN notifications :
                  /\ notifications[i].user_id = leader_id
                  /\ notifications[i].message[1] = users[caller].name
           THEN notifications
           ELSE create_notification(notifications, leader_id, "new_follower",
                                    <<users[caller].name, "started following you">>,
                                    None, None)
    /\ last' = Response("follow_leader", caller, <<leader_id>>, "",
                        HTTP_200_OK, "Leader followed successfully", "new_follow")

\* follow_leader when no edge was found: insert and commit (the unique
\* constraint decides), then notify the leader.
follow_new(caller, leader_id) ==
    IF unique_worshiper_leader(follows, caller, leader_id)
    THEN /\ Len(notifications) < MaxNotifications
         /\ follow_seq' = follow_seq + 1
         /\ follows' = follows \cup {[id |-> follow_seq + 1,
                                      worshiper_id |-> caller,
                                      leader_id |-> leader_id]}
         /\ notifications' = create_notification(notifications, leader_id,
                                 "new_follower",
                                 <<users[caller].name, "started following you">>,
                                 None, None)
         /\ last' = Response("follow_leader", caller, <<leader_id>>, "",
                             HTTP_200_OK, "Leader followed successfully",
                             "new_follow")
    ELSE /\ UNCHANGED <<follows, follow_seq, notifications>>
         /\ last' = Response("follow_leader", caller, <<leader_id>>, "",
                             HTTP_500_INTERNAL_SERVER_ERROR, "IntegrityError", "")

\* follow_leader with the existence check left out.
follow_leader_unchecked(caller, leader_id) ==
    follow_new(caller, leader_id)

follow_leader(caller, leader_id) ==
    IF is_following(follows, caller, leader_id)
    THEN follow_existing(caller, leader_id)
    ELSE follow_new(caller, leader_id)

Reject(op, caller, args, status, detail) ==
    last' = Response(op, caller, args, "", status, detail, "")

\* follow_leader with the self-follow guard left out.
follow_leader_validated_unguarded(worshiper_id, leader_id) ==
    IF leader_id \notin DOMAIN users
    THEN /\ Reject("follow_leader", worshiper_id, <<leader_id>>,
                   HTTP_404_NOT_FOUND, "User not found")
         /\ UNCHANGED <<follows, follow_seq, notifications>>
    ELSE IF users[leader_id].role # LEADER
    THEN /\ Reject("follow_leader", worshiper_id, <<leader_id>>,
                   HTTP_400_BAD_REQUEST, "User is not a leader")
         /\ UNCHANGED <<follows, follow_seq, notifications>>
    ELSE follow_leader(worshiper_id, leader_id)

\* follow_leader from its first line: validate_leader_exists, the self-follow
\* guard, then the edge.
follow_leader_validated(worshiper_id, leader_id) ==
    IF leader_id \notin DOMAIN users
    THEN /\ Reject("follow_leader", worshiper_id, <<leader_id>>,
                   HTTP_404_NOT_FOUND, "User not found")
         /\ UNCHANGED <<follows, follow_seq, notifications>>
    ELSE IF users[leader_id].role # LEADER
    THEN /\ Reject("follow_leader", worshiper_id, <<leader_id>>,
                   HTTP_400_BAD_REQUEST, "User is not a leader")
         /\ UNCHANGED <<follows, follow_seq, notifications>>
    ELSE IF worshiper_id = leader_id
    THEN /\ Reject("follow_leader", worshiper_id, <<leader_id>>,
                   HTTP_400_BAD_REQUEST, "Cannot follow yourself")
         /\ UNCHANGED <<follows, follow_seq, notifications>>
    ELSE follow_leader(worshiper_id, leader_id)

\* follow_leader(db, worshiper_id, leader_id) called as a function, with
\* whatever pair of ids the caller passes.
follow_leader_call(worshiper_id, leader_id) ==
    /\ run' = NoRun
    /\ UNCHANGED <<users, posts, post_likes, post_saves, comments, chats, messages,
                   questions, now, inflight>>
    /\ follow_leader_validated(worshiper_id, leader_id)

\* POST /follows/{leader_id}
follow_leader_endpoint(caller, leader_id) ==
    /\ run' = NoRun
    /\ UNCHANGED <<users, posts, post_likes, post_saves, comments, chats, messages,
                   questions, now, inflight>>
    /\ IF users[caller].role # WORSHIPER
       THEN /\ Reject("follow_leader", caller, <<leader_id>>,
                      HTTP_403_FORBIDDEN, "Only worshipers can perform this action")
            /\ UNCHANGED <<follows, follow_seq, notifications>>
       ELSE follow_leader_validated(caller, leader_id)

\* unfollow_leader: deletes the edge when there is one; always True.
unfollow_leader(table, worshiper_id, leader_id) ==
    table \ FollowRows(table, worshiper_id, leader_id)

\* POST /follows/{leader_id} up to the lookup of the existing edge: role
\* check, validate_leader_exists, self-follow guard, lookup.  With an edge
\* found the request ends; with none found it goes on to the insert.
follow_leader_lookup(slot, caller, leader_id) ==
    /\ inflight[slot] = None
    /\ run' = NoRun
    /\ UNCHANGED <<users, follows, follow_seq, posts, post_likes, post_saves, comments,
                   chats, messages, questions, notifications, now>>
    /\ IF users[caller].role # WORSHIPER
       THEN /\ Reject("follow_leader", caller, <<leader_id>>,
                      HTTP_403_FORBIDDEN, "Only worshipers can perform this action")
            /\ UNCHANGED inflight
       ELSE IF leader_id \notin DOMAIN users
       THEN /\ Reject("follow_leader", caller, <<leader_id>>,
                      HTTP_404_NOT_FOUND, "User not found")
            /\ UNCHANGED inflight
       ELSE IF users[leader_id].role # LEADER
       THEN /\ Reject("follow_leader", caller, <<leader_id>>,
                      HTTP_400_BAD_REQUEST, "User is not a leader")
            /\ UNCHANGED inflight
       ELSE IF caller = leader_id
       THEN /\ Reject("follow_leader", caller, <<leader_id>>,
                      HTTP_400_BAD_REQUEST, "Cannot follow yourself")
            /\ UNCHANGED inflight
       ELSE IF is_following(follows, caller, leader_id)
       THEN /\ last' = Response("follow_leader", caller, <<leader_id>>, "",
                                HTTP_200_OK, "Leader followed successfully",
                                "existing_follow")
            /\ UNCHANGED inflight
       ELSE /\ inflight' = [inflight EXCEPT ![slot] =
                               Some([worshiper_id |-> caller,
                                     leader_id |-> leader_id,
                                     content_text |-> ""])]
            /\ UNCHANGED last

\* POST /follows/{leader_id} from the insert on: add the row and commit (the
\* unique constraint decides), then notify the leader.
follow_leader_insert(slot) ==
    /\ inflight[slot] # None
    /\ run' = NoRun
    /\ inflight' = [inflight EXCEPT ![slot] = None]
    /\ UNCHANGED <<users, posts, post_likes, post_saves, comments, chats, messages,
                   questions, now>>
    /\ follow_new(inflight[slot][1].worshiper_id, inflight[slot][1].leader_id)

\* DELETE /follows/{leader_id}
unfollow_leader_endpoint(caller, leader_id) ==
    /\ run' = NoRun
    /\ UNCHANGED <<users, follow_seq, posts, post_likes, post_saves, comments, chats,
                   messages, questions, notifications, now, inflight>>
    /\ IF users[caller].role # WORSHIPER
       THEN /\ Reject("unfollow_leader", caller, <<leader_id>>,
                      HTTP_403_FORBIDDEN, "Only worshipers can perform this action")
            /\ UNCHANGED follows
       ELSE /\ follows' = unfollow_leader(follows, caller, leader_id)
            /\ last' = Response("unfollow_leader", caller, <<leader_id>>, "",
                                HTTP_200_OK, "Leader unfollowed successfully", "True")

-----------------------------------------------------------------------------
(* Chats *)

ChatRows(table, worshiper_id, leader_id) ==
    {c \in Range(table) : c.worshiper_id = worshiper_id /\ c.leader_id = leader_id}

\* The chats table without its unique constraint.
uq_chat_participants_absent(table, worshiper_id, leader_id) == TRUE

\* UniqueConstraint('worshiper_id', 'leader_id', name='uq_chat_participants').
uq_chat_participants(table, worshiper_id, leader_id) ==
    ChatRows(table, worshiper_id, leader_id) = {}

\* A follow gate that an existing chat of the pair also satisfies.
verify_follow_exists_or_chat(worshiper_id, leader_id) ==
    \/ \E f \in follows : f.worshiper_id = worshiper_id /\ f.leader_id = leader_id
    \/ ChatRows(chats, worshiper_id, leader_id) # {}

\* A follow gate that lets everyone through.
verify_follow_exists_open(worshiper_id, leader_id) == TRUE

\* verify_follow_exists: the follow gate of send-first-message.
verify_follow_exists(worshiper_id, leader_id) ==
    \E f \in follows : f.worshiper_id = worshiper_id /\ f.leader_id = leader_id

\* A recipient computed the wrong way round: the sender notifies themself.
recipient_id_self(chat, sender_id) == sender_id

\* The recipient of a message's notification: the other participant.
recipient_id(chat, sender_id) ==
    IF sender_id = chat.worshiper_id THEN chat.leader_id ELSE chat.worshiper_id

\* The Message row send_message builds: unread, never read.
new_message(chat, sender_id, sender_role, content_text) ==
    [id |-> Len(messages) + 1,
     chat_id |-> chat.id,
     sender_id |-> sender_id,
     sender_role |-> IF sender_role = WORSHIPER THEN WORSHIPER ELSE LEADER,
     content_text |-> content_text,
     created_at |-> now,
     is_read |-> FALSE,
     read_at |-> None]

\* send_message: append the message (unread), commit, notify the recipient.
send_message(chat, sender_id, sender_role, content_text) ==
    /\ Len(messages) < MaxMessages
    /\ Len(notifications) < MaxNotifications
    /\ messages' = Append(messages,
                          new_message(chat, sender_id, sender_role, content_text))
    /\ notifications' = create_notification(notifications,
                            recipient_id(chat, sender_id), "new_message",
                            <<users[sender_id].name, "sent you a message">>,
                            Some("chat"), Some(chat.id))

\* POST /chats/{chat_id}/messages
send_message_to_chat(caller, chat_id, content_text) ==
    /\ run' = NoRun
    /\ UNCHANGED <<users, follows, follow_seq, posts, post_likes, post_saves, comments,
                   chats, questions, now, inflight>>
    /\ IF chat_id \notin DOMAIN chats
       THEN /\ Reject("send_message", caller, <<chat_id>>,
                      HTTP_404_NOT_FOUND, "Chat not found")
            /\ UNCHANGED <<messages, notifications>>
       ELSE IF caller \notin {chats[chat_id].worshiper_id, chats[chat_id].leader_id}
       THEN /\ Reject("send_message", caller, <<chat_id>>, HTTP_403_FORBIDDEN,
                      "You can only access chats you are a participant in")
            /\ UNCHANGED <<messages, notifications>>
       ELSE /\ send_message(chats[chat_id], caller, users[caller].role, content_text)
            /\ last' = Response("send_message", caller, <<chat_id>>, content_text,
                                HTTP_201_CREATED, "", "message")

\* get_or_create_chat, second half: insert the chat and commit.  The unique
\* constraint rejects the insert when a row for the pair is there by now.
create_chat(table, worshiper_id, leader_id) ==
    Append(table, [id |-> Len(table) + 1,
                   worshiper_id |-> worshiper_id,
                   leader_id |-> leader_id,
                   created_at |-> now])

\* POST /leaders/{leader_id}/messages up to the lookup of get_or_create_chat:
\* role check, follow gate, lookup.  With a chat found the message is sent in
\* it; with none found the request goes on to the insert.
send_first_message_lookup(slot, caller, leader_id, content_text) ==
    /\ inflight[slot] = None
    /\ run' = NoRun
    /\ UNCHANGED <<users, follows, follow_seq, posts, post_likes, post_saves, comments,
                   chats, questions, now>>
    /\ IF users[caller].role # WORSHIPER
       THEN /\ Reject("send_first_message", caller, <<leader_id>>, HTTP_403_FORBIDDEN,
                      "Only worshipers can initiate conversations with leaders")
            /\ UNCHANGED <<messages, notifications, inflight>>
       ELSE IF ~verify_follow_exists(caller, leader_id)
       THEN /\ Reject("send_first_message", caller, <<leader_id>>, HTTP_403_FORBIDDEN,
                      "You must follow this leader to send messages")
            /\ UNCHANGED <<messages, notifications, inflight>>
       ELSE IF ChatRows(chats, caller, leader_id) # {}
       THEN /\ \E chat \in ChatRows(chats, caller, leader_id) :
                   send_message(chat, caller, users[caller].role, content_text)
            /\ last' = Response("send_first_message", caller, <<leader_id>>,
                                content_text, HTTP_201_CREATED, "", "existing chat")
            /\ UNCHANGED inflight
       ELSE /\ inflight' = [inflight EXCEPT ![slot] =
                               Some([worshiper_id |-> caller,
                                     leader_id |-> leader_id,
                                     content_text |-> content_text])]
            /\ UNCHANGED <<messages, notifications, last>>

\* POST /leaders/{leader_id}/messages from the insert of get_or_create_chat on:
\* insert the chat, then send the message in it.  A rejected insert raises
\* IntegrityError out of the handler: no chat is returned, no message is sent.
send_first_message_insert(slot) ==
    /\ inflight[slot] # None
    /\ run' = NoRun
    /\ inflight' = [inflight EXCEPT ![slot] = None]
    /\ UNCHANGED <<users, follows, follow_seq, posts, post_likes, post_saves, comments,
                   questions, now>>
    /\ LET req == inflight[slot][1] IN
       IF uq_chat_participants(chats, req.worshiper_id, req.leader_id)
       THEN /\ chats' = create_chat(chats, req.worshiper_id, req.leader_id)
            /\ send_message(chats'[Len(chats')], req.worshiper_id,
                            users[req.worshiper_id].role, req.content_text)
            /\ last' = Response("send_first_message", req.worshiper_id,
                                <<req.leader_id>>, req.content_text,
                                HTTP_201_CREATED, "", "new chat")
       ELSE /\ UNCHANGED <<chats, messages, notifications>>
            /\ last' = Response("send_first_message", req.worshiper_id,
                                <<req.leader_id>>, req.content_text,
                                HTTP_500_INTERNAL_SERVER_ERROR, "IntegrityError", "")

\* mark_messages_as_read with the chat_id condition left out of the WHERE.
mark_messages_as_read_any_chat(table, chat_id, user_id) ==
    [i \in DOMAIN table |->
        IF table[i].sender_id # user_id /\ table[i].is_read = FALSE
        THEN [table[i] EXCEPT !.is_read = TRUE]
        ELSE table[i]]

\* mark_messages_as_read that also stamps read_at.
mark_messages_as_read_stamped(table, chat_id, user_id) ==
    [i \in DOMAIN table |->
        IF /\ table[i].chat_id = chat_id
           /\ table[i].sender_id # user_id
           /\ table[i].is_read = FALSE
        THEN [table[i] EXCEPT !.is_read = TRUE, !.read_at = Some(now)]
        ELSE table[i]]

\* mark_messages_as_read with the sender condition left out of the WHERE.
mark_messages_as_read_own_too(table, chat_id, user_id) ==
    [i \in DOMAIN table |->
        IF table[i].chat_id = chat_id /\ table[i].is_read = FALSE
        THEN [table[i] EXCEPT !.is_read = TRUE]
        ELSE table[i]]

\* mark_messages_as_read: UPDATE messages SET is_read = true WHERE chat_id = :chat
\* AND sender_id != :user AND is_read = false.
mark_messages_as_read(table, chat_id, user_id) ==
    [i \in DOMAIN table |->
        IF /\ table[i].chat_id = chat_id
           /\ table[i].sender_id # user_id
           /\ table[i].is_read = FALSE
        THEN [table[i] EXCEPT !.is_read = TRUE]
        ELSE table[i]]

\* POST /chats/{chat_id}/mark-read
mark_chat_as_read(caller, chat_id) ==
    /\ run' = NoRun
    /\ UNCHANGED <<users, follows, follow_seq, posts, post_likes, post_saves, comments,
                   chats, questions, notifications, now, inflight>>
    /\ IF chat_id \notin DOMAIN chats
       THEN /\ Reject("mark_chat_as_read", caller, <<chat_id>>,
                      HTTP_404_NOT_FOUND, "Chat not found")
            /\ UNCHANGED messages
       ELSE IF caller \notin {chats[chat_id].worshiper_id, chats[chat_id].leader_id}
       THEN /\ Reject("mark_chat_as_read", caller, <<chat_id>>, HTTP_403_FORBIDDEN,
                      "You can only access chats you are a participant in")
            /\ UNCHANGED messages
       ELSE /\ messages' = mark_messages_as_read(messages, chat_id, caller)
            /\ last' = Response("mark_chat_as_read", caller, <<chat_id>>, "",
                                HTTP_204_NO_CONTENT, "",
                                IF messages' = messages
                                THEN "rowcount 0" ELSE "rowcount above 0")

-----------------------------------------------------------------------------
(* Questions *)

\* A follow gate of ask-question that lets every worshiper through.
verify_worshiper_follows_leader_open(worshiper_id, leader_id) == TRUE

\* verify_worshiper_follows_leader: the follow gate of ask-question.
verify_worshiper_follows_leader(worshiper_id, leader_id) ==
    \E f \in follows : f.worshiper_id = worshiper_id /\ f.leader_id = leader_id

\* ask_question: a new pending question.
ask_question(table, worshiper_id, leader_id, question_text) ==
    Append(table, [id |-> Len(table) + 1,
                   worshiper_id |-> worshiper_id,
                   leader_id |-> leader_id,
                   question_text |-> question_text,
                   answer_text |-> None,
                   answered |-> FALSE,
                   created_at |-> now,
                   answered_at |-> None])

\* POST /leaders/{leader_id}/questions
submit_question_to_leader(caller, leader_id, question_text) ==
    /\ run' = NoRun
    /\ UNCHANGED <<users, follows, follow_seq, posts, post_likes, post_saves, comments,
                   chats, messages, notifications, now, inflight>>
    /\ IF users[caller].role # WORSHIPER
       THEN /\ Reject("ask_question", caller, <<leader_id>>, HTTP_403_FORBIDDEN,
                      "Only worshipers can ask questions to leaders")
            /\ UNCHANGED questions
       ELSE IF ~verify_worshiper_follows_leader(caller, leader_id)
       THEN /\ Reject("ask_question", caller, <<leader_id>>, HTTP_403_FORBIDDEN,
                      "You must follow this leader to ask questions")
            /\ UNCHANGED questions
       ELSE /\ Len(questions) < MaxQuestions
            /\ questions' = ask_question(questions, caller, leader_id, question_text)
            /\ last' = Response("ask_question", caller, <<leader_id>>, question_text,
                                HTTP_201_CREATED, "", "question")

\* All sequences holding each row of `rows` once, newest created_at first;
\* rows of one created_at come in any order (ORDER BY created_at DESC).
NewestFirst(rows) ==
    {s \in [1..Cardinality(rows) -> rows] :
        /\ \A r \in rows : \E i \in DOMAIN s : s[i] = r
        /\ \A i, j \in DOMAIN s : i < j => s[i].created_at >= s[j].created_at}

\* get_leader_questions with the leader_id condition left out of the query.
get_leader_questions_of_all(leader_id) ==
    {[pending |-> SelectSeq(all_questions, LAMBDA q : ~q.answered),
      answered |-> SelectSeq(all_questions, LAMBDA q : q.answered)] :
        all_questions \in NewestFirst(Range(questions))}

\* get_leader_questions: one query for the leader's questions, newest first,
\* split in memory by status.  The set of results the query order allows.
get_leader_questions(leader_id) ==
    {[pending |-> SelectSeq(all_questions, LAMBDA q : ~q.answered),
      answered |-> SelectSeq(all_questions, LAMBDA q : q.answered)] :
        all_questions \in
            NewestFirst({q \in Range(questions) : q.leader_id = leader_id})}

\* answer_question that leaves the answered flag as it was.
answer_question_flag_kept(question, answer_text) ==
    [question EXCEPT !.answer_text = Some(answer_text),
                     !.answered_at = Some(now)]

\* answer_question that keeps the answer of an already answered question.
answer_question_once(question, answer_text) ==
    IF question.answered
    THEN question
    ELSE [question EXCEPT !.answer_text = Some(answer_text),
                          !.answered = TRUE,
                          !.answered_at = Some(now)]

\* answer_question: the row as the update leaves it.
answer_question(question, answer_text) ==
    [question EXCEPT !.answer_text = Some(answer_text),
                     !.answered = TRUE,
                     !.answered_at = Some(now)]

\* An ownership check every leader passes.
question_addressed_to_any(question, leader_id) == TRUE

\* verify_leader_owns_question, once the question is found: it must be
\* addressed to this leader.
question_addressed_to(question, leader_id) == question.leader_id = leader_id

\* A notification for the first answer of a question only.
notify_first_answer(table, question) ==
    IF question.answered
    THEN table
    ELSE create_notification(table, question.worshiper_id, "question_answered",
                             <<users[question.leader_id].name, "answered your question">>,
                             Some("question"), Some(question.id))

\* answer_question, after the commit of the answer: the worshiper is told.
notify_answer(table, question) ==
    create_notification(table, question.worshiper_id, "question_answered",
                        <<users[question.leader_id].name, "answered your question">>,
                        Some("question"), Some(question.id))

\* The answers given so far: each one left a question_answered notification.
Answers(table) ==
    Cardinality({i \in DOMAIN table : table[i].type = "question_answered"})

\* POST /leaders/questions/{question_id}/answer
answer_worshiper_question(caller, question_id, answer_text) ==
    /\ run' = NoRun
    /\ UNCHANGED <<users, follows, follow_seq, posts, post_likes, post_saves, comments,
                   chats, messages, now, inflight>>
    /\ IF users[caller].role # LEADER
       THEN /\ Reject("answer_question", caller, <<question_id>>, HTTP_403_FORBIDDEN,
                      "Only leaders can answer questions")
            /\ UNCHANGED <<questions, notifications>>
       ELSE IF question_id \notin DOMAIN questions
       THEN /\ Reject("answer_question", caller, <<question_id>>, HTTP_404_NOT_FOUND,
                      "Question not found")
            /\ UNCHANGED <<questions, notifications>>
       ELSE IF ~question_addressed_to(questions[question_id], caller)
       THEN /\ Reject("answer_question", caller, <<question_id>>, HTTP_403_FORBIDDEN,
                      "You can only answer questions addressed to you")
            /\ UNCHANGED <<questions, notifications>>
       ELSE /\ Len(notifications) < MaxNotifications
            /\ Answers(notifications) < MaxAnswers
            /\ questions' = [questions EXCEPT ![question_id] =
                                answer_question(questions[question_id], answer_text)]
            /\ notifications' = notify_answer(notifications, questions[question_id])
            /\ last' = Overwrote(Response("answer_question", caller, <<question_id>>,
                                          answer_text, HTTP_200_OK, "", "question"),
                                 questions[question_id])

-----------------------------------------------------------------------------
(* Posts *)

\* Instants a request can schedule a post for: none, past, present, future.
ScheduleTimes == {None} \cup {Some(t) : t \in 0..(MaxTime + 1)}

\* should_publish decided with "at or after now" in place of "after now".
should_publish_from_now(scheduled_at) ==
    IF scheduled_at # None /\ scheduled_at[1] >= now THEN FALSE ELSE TRUE

\* create_post: publish now unless scheduled_at is set and lies after now.
should_publish(scheduled_at) ==
    IF scheduled_at # None /\ scheduled_at[1] > now THEN FALSE ELSE TRUE

\* All sequences holding each row of `rows` once (a query without ORDER BY).
AnyOrder(rows) ==
    {s \in [1..Cardinality(rows) -> rows] : \A r \in rows : \E i \in DOMAIN s : s[i] = r}

\* A loop over the followers that stops after the first one.
notify_first_follower(table, followers, leader_name, post_id) ==
    IF followers = <<>>
    THEN table
    ELSE create_notification(table, Head(followers).worshiper_id, "new_post",
                             <<leader_name, "shared new spiritual content">>,
                             Some("post"), Some(post_id))

\* create_post, the loop over the followers: one new_post notification each.
RECURSIVE notify_followers(_, _, _, _)
notify_followers(table, followers, leader_name, post_id) ==
    IF followers = <<>>
    THEN table
    ELSE notify_followers(
             create_notification(table, Head(followers).worshiper_id, "new_post",
                                 <<leader_name, "shared new spiritual content">>,
                                 Some("post"), Some(post_id)),
             Tail(followers), leader_name, post_id)

\* create_post: insert the post and commit; when it is published at once,
\* notify every follower of the leader.
create_post(leader_id, content_text, scheduled_at) ==
    LET new_post == [id |-> Len(posts) + 1,
                     leader_id |-> leader_id,
                     content_text |-> content_text,
                     scheduled_at |-> scheduled_at,
                     is_published |-> should_publish(scheduled_at),
                     is_active |-> TRUE,
                     created_at |-> now]
        followers == {f \in follows : f.leader_id = leader_id}
    IN  /\ Len(posts) < MaxPosts
        /\ posts' = Append(posts, new_post)
        /\ IF new_post.is_published
           THEN /\ Len(notifications) + Cardinality(followers) <= MaxNotifications
                /\ \E order \in AnyOrder(followers) :
                       notifications' = notify_followers(notifications, order,
                                            users[leader_id].name, new_post.id)
           ELSE UNCHANGED notifications

\* POST /posts
create_leader_post(caller, content_text, scheduled_at) ==
    /\ run' = NoRun
    /\ UNCHANGED <<users, follows, follow_seq, post_likes, post_saves, comments,
                   chats, messages, questions, now, inflight>>
    /\ IF users[caller].role # LEADER
       THEN /\ Reject("create_post", caller, <<>>, HTTP_403_FORBIDDEN,
                      "Only leaders can create posts. Worshipers can follow leaders and view their content.")
            /\ UNCHANGED <<posts, notifications>>
       ELSE /\ create_post(caller, content_text, scheduled_at)
            /\ last' = Response("create_post", caller, <<Len(posts) + 1>>,
                                content_text, HTTP_201_CREATED, "", "post")

\* get_leader_posts: the leader's active posts, published or not, newest first.
get_leader_posts(leader_id) ==
    NewestFirst({p \in Range(posts) : p.leader_id = leader_id /\ p.is_active})

compute_post_status(post) ==
    IF post.is_published THEN "published" ELSE "scheduled"

\* GET /posts/leaders/me/posts for a leader: the results the query order allows.
get_my_posts(caller) ==
    {[posts |-> [i \in DOMAIN listed |->
                    [id |-> listed[i].id,
                     leader_id |-> listed[i].leader_id,
                     scheduled_at |-> listed[i].scheduled_at,
                     is_published |-> listed[i].is_published,
                     created_at |-> listed[i].created_at,
                     status |-> compute_post_status(listed[i])]],
      total |-> Len(listed)] : listed \in get_leader_posts(caller)}

-----------------------------------------------------------------------------
(* Engagement *)

LikeRows(table, post_id, user_id) ==
    {r \in table : r.post_id = post_id /\ r.user_id = user_id}

\* like_post / save_post: insert the (post, user) row unless it is there.
like_post(table, post_id, user_id) ==
    IF LikeRows(table, post_id, user_id) # {}
    THEN table
    ELSE table \cup {[post_id |-> post_id, user_id |-> user_id, created_at |-> now]}

\* unlike_post that finds the row and leaves it in place.
unlike_post_kept(table, post_id, user_id) == table

\* unlike_post / unsave_post: delete the (post, user) row when it is there.
unlike_post(table, post_id, user_id) ==
    table \ LikeRows(table, post_id, user_id)

\* get_post_engagement_stats
get_post_engagement_stats(post_id, user_id) ==
    [likes_count |-> Cardinality({r \in post_likes : r.post_id = post_id}),
     comments_count |-> Cardinality({i \in DOMAIN comments :
                                        comments[i].post_id = post_id}),
     is_liked |-> LikeRows(post_likes, post_id, user_id) # {},
     is_saved |-> LikeRows(post_saves, post_id, user_id) # {}]

\* Observer: how far a run like, like, unlike, unlike (kind "like") or save,
\* save, unsave, unsave (kind "save") of one user on one post has come, with
\* the likes_count and the presence of the user's row when the run began.
Began(kind, post_id, user_id) ==
    [kind |-> kind, post_id |-> post_id, user_id |-> user_id, stage |-> 1,
     base |-> get_post_engagement_stats(post_id, user_id).likes_count,
     had |-> IF kind = "like"
             THEN get_post_engagement_stats(post_id, user_id).is_liked
             ELSE get_post_engagement_stats(post_id, user_id).is_saved]

Continues(kind, post_id, user_id) ==
    run.kind = kind /\ run.post_id = post_id /\ run.user_id = user_id

AfterSet(kind, post_id, user_id) ==
    IF Continues(kind, post_id, user_id) /\ run.stage = 1
    THEN [run EXCEPT !.stage = 2]
    ELSE Began(kind, post_id, user_id)

AfterUnset(kind, post_id, user_id) ==
    IF Continues(kind, post_id, user_id) /\ run.stage \in {2, 3}
    THEN [run EXCEPT !.stage = run.stage + 1]
    ELSE NoRun

\* The engagement checks without require_worshiper.
engagement_rejection_any_role(caller, post_id) ==
    IF post_id \notin DOMAIN posts THEN "Post not found" ELSE ""

\* require_worshiper and verify_post_exists, the checks every engagement
\* route makes first: the rejection, or "" when the request passes.
engagement_rejection(caller, post_id) ==
    IF users[caller].role # WORSHIPER THEN "Only worshipers can like or save posts"
    ELSE IF post_id \notin DOMAIN posts THEN "Post not found"
    ELSE ""

RejectEngagement(op, caller, post_id) ==
    /\ Reject(op, caller, <<post_id>>,
              IF users[caller].role # WORSHIPER
              THEN HTTP_403_FORBIDDEN ELSE HTTP_404_NOT_FOUND,
              engagement_rejection(caller, post_id))
    /\ run' = NoRun

\* POST /posts/{post_id}/like
like_a_post(caller, post_id) ==
    /\ UNCHANGED <<users, follows, follow_seq, posts, post_saves, comments, chats,
                   messages, questions, notifications, now, inflight>>
    /\ IF engagement_rejection(caller, post_id) # ""
       THEN /\ RejectEngagement("like_post", caller, post_id)
            /\ UNCHANGED post_likes
       ELSE /\ post_likes' = like_post(post_likes, post_id, caller)
            /\ last' = Response("like_post", caller, <<post_id>>, "", HTTP_200_OK,
                                IF LikeRows(post_likes, post_id, caller) # {}
                                THEN "Post already liked" ELSE "Post liked", "")
            /\ run' = AfterSet("like", post_id, caller)

\* DELETE /posts/{post_id}/like
unlike_a_post(caller, post_id) ==
    /\ UNCHANGED <<users, follows, follow_seq, posts, post_saves, comments, chats,
                   messages, questions, notifications, now, inflight>>
    /\ IF engagement_rejection(caller, post_id) # ""
       THEN /\ RejectEngagement("unlike_post", caller, post_id)
            /\ UNCHANGED post_likes
       ELSE /\ post_likes' = unlike_post(post_likes, post_id, caller)
            /\ last' = Response("unlike_post", caller, <<post_id>>, "", HTTP_200_OK,
                                IF LikeRows(post_likes, post_id, caller) # {}
                                THEN "Post unliked" ELSE "Post not liked", "")
            /\ run' = AfterUnset("like", post_id, caller)

\* POST /posts/{post_id}/save
save_a_post(caller, post_id) ==
    /\ UNCHANGED <<users, follows, follow_seq, posts, post_likes, comments, chats,
                   messages, questions, notifications, now, inflight>>
    /\ IF engagement_rejection(caller, post_id) # ""
       THEN /\ RejectEngagement("save_post", caller, post_id)
            /\ UNCHANGED post_saves
       ELSE /\ post_saves' = like_post(post_saves, post_id, caller)
            /\ last' = Response("save_post", caller, <<post_id>>, "", HTTP_200_OK,
                                IF LikeRows(post_saves, post_id, caller) # {}
                                THEN "Post already saved" ELSE "Post saved", "")
            /\ run' = AfterSet("save", post_id, caller)

\* DELETE /posts/{post_id}/save
unsave_a_post(caller, post_id) ==
    /\ UNCHANGED <<users, follows, follow_seq, posts, post_likes, comments, chats,
                   messages, questions, notifications, now, inflight>>
    /\ IF engagement_rejection(caller, post_id) # ""
       THEN /\ RejectEngagement("unsave_post", caller, post_id)
            /\ UNCHANGED post_saves
       ELSE /\ post_saves' = unlike_post(post_saves, post_id, caller)
            /\ last' = Response("unsave_post", caller, <<post_id>>, "", HTTP_200_OK,
                                IF LikeRows(post_saves, post_id, caller) # {}
                                THEN "Post unsaved" ELSE "Post not saved", "")
            /\ run' = AfterUnset("save", post_id, caller)

-----------------------------------------------------------------------------
(* Comments *)

\* add_comment: one new row.
add_comment(table, post_id, user_id, text) ==
    Append(table, [id |-> Len(table) + 1,
                   post_id |-> post_id,
                   user_id |-> user_id,
                   text |-> text,
                   created_at |-> now])

\* POST /posts/{post_id}/comments, open to every role.
add_comment_to_post(caller, post_id, text) ==
    /\ run' = NoRun
    /\ UNCHANGED <<users, follows, follow_seq, posts, post_likes, post_saves, chats,
                   messages, questions, notifications, now, inflight>>
    /\ IF post_id \notin DOMAIN posts
       THEN /\ Reject("add_comment", caller, <<post_id>>, HTTP_404_NOT_FOUND,
                      "Post not found")
            /\ UNCHANGED comments
       ELSE /\ Len(comments) < MaxComments
            /\ comments' = add_comment(comments, post_id, caller, text)
            /\ last' = Response("add_comment", caller, <<post_id>>, text,
                                HTTP_201_CREATED, "", "comment")

-----------------------------------------------------------------------------
(* Explore feed *)

\* Pages and page sizes a feed request can ask for.
FeedPages == 1..(MaxPosts + 1)
FeedPageSizes == {1, MaxPageSize, MaxPageSize + 1}

Min(a, b) == IF a < b THEN a ELSE b

\* get_explore_feed: the active, published posts of active leaders, newest
\* first, one page of them, each with its engagement stats for the viewer.
get_explore_feed(user_id, page, requested_page_size) ==
    LET page_size == Min(requested_page_size, MaxPageSize)
        offset == (page - 1) * page_size
        total == Cardinality({p \in Range(posts) : p.is_active /\ p.is_published})
        rows == {p \in Range(posts) : /\ p.is_active
                                      /\ p.is_published
                                      /\ users[p.leader_id].is_active}
    IN  {[posts |-> [i \in 1..(Min(offset + page_size, Len(results)) - offset) |->
                        LET post == results[offset + i]
                            stats == get_post_engagement_stats(post.id, user_id)
                        IN  [id |-> post.id,
                             leader_id |-> post.leader_id,
                             content_text |-> post.content_text,
                             created_at |-> post.created_at,
                             likes_count |-> stats.likes_count,
                             comments_count |-> stats.comments_count,
                             is_liked |-> stats.is_liked,
                             is_saved |-> stats.is_saved]],
          total |-> total,
          page |-> page,
          page_size |-> page_size,
          has_more |-> total > page * page_size] : results \in NewestFirst(rows)}

-----------------------------------------------------------------------------
(* Following feed and daily reflection *)

\* The window of the daily reflection (24 hours), in steps of the clock.
ReflectionWindow == 1

\* A feed filter that looks at the schedule again: a post whose scheduled
\* instant has passed counts as published.
shown_in_feeds_when_due(post) ==
    /\ post.is_active
    /\ \/ post.is_published
       \/ post.scheduled_at # None /\ post.scheduled_at[1] <= now

\* The WHERE clauses on the post that the feed queries share:
\* Post.is_active == True and Post.is_published == True.
shown_in_feeds(post) == post.is_active /\ post.is_published

\* get_following_feed: the shown posts of the leaders the worshiper follows,
\* newest first, one page of them.
get_following_feed(worshiper_id, page, requested_page_size) ==
    LET page_size == Min(requested_page_size, MaxPageSize)
        offset == (page - 1) * page_size
        followed == {p \in Range(posts) :
                        /\ \E f \in follows : /\ f.worshiper_id = worshiper_id
                                              /\ f.leader_id = p.leader_id
                        /\ shown_in_feeds(p)}
        total == Cardinality(followed)
        rows == {p \in followed : users[p.leader_id].is_active}
    IN  {[posts |-> [i \in 1..(Min(offset + page_size, Len(results)) - offset) |->
                        results[offset + i].id],
          total |-> total,
          page |-> page,
          page_size |-> page_size,
          has_more |-> total > page * page_size] : results \in NewestFirst(rows)}

\* get_daily_reflection: the newest shown post of the last 24 hours, if any.
get_daily_reflection ==
    LET rows == {p \in Range(posts) : /\ shown_in_feeds(p)
                                      /\ users[p.leader_id].is_active
                                      /\ p.created_at >= now - ReflectionWindow}
    IN  IF rows = {}
        THEN {[post |-> None, message |-> "No reflection available for today"]}
        ELSE {[post |-> Some(results[1].id), message |-> ""] :
                 results \in NewestFirst(rows)}

-----------------------------------------------------------------------------
(* Profile *)

\* Request bodies of PUT /me: JSON objects with some of the keys a client
\* may send, declared by the schema or not.
ProfileBodies ==
    {[bio |-> Some("shepherd")],
     [role |-> LEADER],
     [role |-> WORSHIPER],
     [bio |-> Some("shepherd"), role |-> LEADER]}

\* A schema that also declares role.
UpdateProfileFieldsWithRole == {"faith", "bio", "profile_photo", "role"}

\* The fields of the UpdateProfile schema; pydantic drops every other key.
UpdateProfileFields == {"faith", "bio", "profile_photo"}

\* profile_data.model_dump(exclude_unset=True): the declared keys that the
\* body carries.
model_dump(body) ==
    [field \in DOMAIN body \cap UpdateProfileFields |-> body[field]]

\* PUT /me: setattr of every dumped field on the caller's row.
update_current_user_profile(caller, body) ==
    LET update_data == model_dump(body)
    IN  /\ run' = NoRun
        /\ UNCHANGED <<follows, follow_seq, posts, post_likes, post_saves, comments,
                       chats, messages, questions, notifications, now, inflight>>
        /\ users' = [users EXCEPT ![caller] =
                        [field \in DOMAIN users[caller] |->
                            IF field \in DOMAIN update_data
                            THEN update_data[field]
                            ELSE users[caller][field]]]
        /\ last' = Response("update_profile", caller, <<>>, "", HTTP_200_OK, "", "user")

-----------------------------------------------------------------------------
(* Conversation history *)

\* The ids of the messages of a chat.
ChatMessages(chat_id) == {i \in DOMAIN messages : messages[i].chat_id = chat_id}

\* GET /chats/{chat_id}: the chat with its messages, loaded through the
\* Chat.messages relationship, which has no order_by: the rows come in the
\* order the database returns them.
get_chat_conversation(caller, chat_id) ==
    /\ run' = NoRun
    /\ UNCHANGED <<users, follows, follow_seq, posts, post_likes, post_saves, comments,
                   chats, messages, questions, notifications, now, inflight>>
    /\ IF chat_id \notin DOMAIN chats
       THEN Reject("get_chat_conversation", caller, <<chat_id>>,
                   HTTP_404_NOT_FOUND, "Chat not found")
       ELSE IF caller \notin {chats[chat_id].worshiper_id, chats[chat_id].leader_id}
       THEN Reject("get_chat_conversation", caller, <<chat_id>>, HTTP_403_FORBIDDEN,
                   "You can only access chats you are a participant in")
       ELSE \E order \in AnyOrder(ChatMessages(chat_id)) :
                last' = Response("get_chat_conversation", caller, <<chat_id>>, "",
                                 HTTP_200_OK, "", order)

-----------------------------------------------------------------------------
(* A notification insert that fails *)

\* A commit undone by a later failure of the same request.
committed_rolled_back(before, after) == before

\* db.commit() of the primary row: what was written stays in the table,
\* whatever a later statement of the same request does.
committed(before, after) == after

\* The response of a request whose create_notification raised: no handler
\* catches the exception.
NotificationFailed(op, caller, args, text) ==
    Response(op, caller, args, text, HTTP_500_INTERNAL_SERVER_ERROR,
             "Internal Server Error", "create_notification raised")

\* POST /follows/{leader_id} reaching the insert of a new edge, with the
\* commit of create_notification raising after the edge was committed.
follow_leader_notification_fails(caller, leader_id) ==
    /\ users[caller].role = WORSHIPER
    /\ leader_id \in DOMAIN users
    /\ users[leader_id].role = LEADER
    /\ caller # leader_id
    /\ unique_worshiper_leader(follows, caller, leader_id)
    /\ run' = NoRun
    /\ UNCHANGED <<users, posts, post_likes, post_saves, comments, chats, messages,
                   questions, notifications, now, inflight>>
    /\ follow_seq' = follow_seq + 1
    /\ follows' = committed(follows,
                            follows \cup {[id |-> follow_seq + 1,
                                           worshiper_id |-> caller,
                                           leader_id |-> leader_id]})
    /\ last' = NotificationFailed("follow_leader", caller, <<leader_id>>, "")

\* POST /chats/{chat_id}/messages by a participant, with the commit of
\* create_notification raising after the message was committed.
send_message_notification_fails(caller, chat_id, content_text) ==
    /\ chat_id \in DOMAIN chats
    /\ caller \in {chats[chat_id].worshiper_id, chats[chat_id].leader_id}
    /\ Len(messages) < MaxMessages
    /\ run' = NoRun
    /\ UNCHANGED <<users, follows, follow_seq, posts, post_likes, post_saves, comments,
                   chats, questions, notifications, now, inflight>>
    /\ messages' = committed(messages,
                             Append(messages,
                                    new_message(chats[chat_id], caller,
                                                users[caller].role, content_text)))
    /\ last' = NotificationFailed("send_message", caller, <<chat_id>>, content_text)

\* POST /questions/{question_id}/answer by the addressed leader, with the
\* commit of create_notification raising after the answer was committed.
answer_question_notification_fails(caller, question_id, answer_text) ==
    /\ users[caller].role = LEADER
    /\ question_id \in DOMAIN questions
    /\ question_addressed_to(questions[question_id], caller)
    /\ run' = NoRun
    /\ UNCHANGED <<users, follows, follow_seq, posts, post_likes, post_saves, comments,
                   chats, messages, notifications, now, inflight>>
    /\ questions' = committed(questions,
                              [questions EXCEPT ![question_id] =
                                  answer_question(questions[question_id], answer_text)])
    /\ last' = Overwrote(NotificationFailed("answer_question", caller,
                                            <<question_id>>, answer_text),
                         questions[question_id])

-----------------------------------------------------------------------------
(* Notification feed *)

NotificationLimits == {1, MaxPageSize}

\* A lookup of mark-as-read that does not ask whose notification it is.
owned_notification_of_anyone(table, notification_id, user_id) ==
    {i \in DOMAIN table : i = notification_id}

\* The lookup of mark_notification_as_read: the row with this id, when it
\* belongs to this user.
owned_notification(table, notification_id, user_id) ==
    {i \in DOMAIN table : i = notification_id /\ table[i].user_id = user_id}

\* A selection of unread notifications that takes every user's.
unread_notifications_of_anyone(table, user_id) ==
    {i \in DOMAIN table : ~table[i].is_read}

\* The unread notifications of a user, as get_user_notifications counts
\* them and mark_all_notifications_as_read selects them.
unread_notifications(table, user_id) ==
    {i \in DOMAIN table : table[i].user_id = user_id /\ ~table[i].is_read}

\* mark_notification_as_read: the table after the call.
mark_notification_as_read(table, notification_id, user_id) ==
    [i \in DOMAIN table |->
        IF i \in owned_notification(table, notification_id, user_id)
        THEN [table[i] EXCEPT !.is_read = TRUE]
        ELSE table[i]]

\* mark_all_notifications_as_read: the table after the call.
mark_all_notifications_as_read(table, user_id) ==
    [i \in DOMAIN table |->
        IF i \in unread_notifications(table, user_id)
        THEN [table[i] EXCEPT !.is_read = TRUE]
        ELSE table[i]]

\* get_user_notifications: the rows selected (cut at limit, counted in
\* total) and the unread count, which is taken over all of the user's rows.
get_user_notifications(table, user_id, limit, include_read) ==
    LET selected == {i \in DOMAIN table :
                        /\ table[i].user_id = user_id
                        /\ (~include_read => ~table[i].is_read)}
    IN  [total |-> Min(limit, Cardinality(selected)),
         unread_count |-> Cardinality(unread_notifications(table, user_id))]

\* GET /notifications
get_notifications(caller, limit, include_read) ==
    /\ run' = NoRun
    /\ UNCHANGED <<users, follows, follow_seq, posts, post_likes, post_saves, comments,
                   chats, messages, questions, notifications, now, inflight>>
    /\ last' = Response("get_notifications", caller, <<limit>>, "", HTTP_200_OK, "",
                        get_user_notifications(notifications, caller, limit,
                                               include_read))

\* POST /notifications/{notification_id}/read
mark_notification_read(caller, notification_id) ==
    /\ run' = NoRun
    /\ UNCHANGED <<users, follows, follow_seq, posts, post_likes, post_saves, comments,
                   chats, messages, questions, now, inflight>>
    /\ notifications' = mark_notification_as_read(notifications, notification_id, caller)
    /\ IF owned_notification(notifications, notification_id, caller) = {}
       THEN last' = Response("mark_notification_read", caller, <<notification_id>>, "",
                             HTTP_404_NOT_FOUND, "Notification not found", "None")
       ELSE last' = Response("mark_notification_read", caller, <<notification_id>>, "",
                             HTTP_200_OK, "", "notification")

\* POST /notifications/read-all
mark_all_read(caller) ==
    /\ run' = NoRun
    /\ UNCHANGED <<users, follows, follow_seq, posts, post_likes, post_saves, comments,
                   chats, messages, questions, now, inflight>>
    /\ notifications' = mark_all_notifications_as_read(notifications, caller)
    /\ last' = Response("mark_all_read", caller, <<>>, "", HTTP_200_OK, "",
                        [marked_count |->
                            Cardinality(unread_notifications(notifications, caller))])

\* Time passes.
Tick ==
    /\ now < MaxTime
    /\ now' = now + 1
    /\ UNCHANGED <<users, follows, follow_seq, posts, post_likes, post_saves, comments,
                   chats, messages, questions, notifications, inflight, last, run>>

-----------------------------------------------------------------------------

\* The store after signup of the users of `population` (id -> role), every
\* other table empty, with `slots` request slots for concurrent first messages.
InitWith(population, slots) ==
    /\ users = [id \in DOMAIN population |-> User(id, population[id])]
    /\ follows = {}
    /\ follow_seq = 0
    /\ posts = <<>>
    /\ post_likes = {}
    /\ post_saves = {}
    /\ comments = <<>>
    /\ chats = <<>>
    /\ messages = <<>>
    /\ questions = <<>>
    /\ notifications = <<>>
    /\ now = 0
    /\ inflight = [s \in slots |-> None]
    /\ last = NoRequest
    /\ run = NoRun

TwoWorshipersOneLeader == (1 :> WORSHIPER) @@ (2 :> WORSHIPER) @@ (3 :> LEADER)
OneWorshiperOneLeader == (1 :> WORSHIPER) @@ (3 :> LEADER)
OneWorshiperTwoLeaders == (1 :> WORSHIPER) @@ (3 :> LEADER) @@ (4 :> LEADER)

Follow == \E caller \in DOMAIN users, leader_id \in AnyIds :
              follow_leader_endpoint(caller, leader_id)

Unfollow == \E caller \in DOMAIN users, leader_id \in AnyIds :
                unfollow_leader_endpoint(caller, leader_id)

SendMessage == \E caller \in DOMAIN users, chat_id \in AnyRowIds(chats), text \in MessageTexts :
                   send_message_to_chat(caller, chat_id, text)

SendFirstMessageLookup ==
    \E slot \in DOMAIN inflight, caller \in DOMAIN users, leader_id \in AnyIds,
       text \in MessageTexts :
        send_first_message_lookup(slot, caller, leader_id, text)

SendFirstMessageInsert == \E slot \in DOMAIN inflight : send_first_message_insert(slot)

MarkChatRead == \E caller \in DOMAIN users, chat_id \in AnyRowIds(chats) :
                    mark_chat_as_read(caller, chat_id)

AskQuestion ==
    \E caller \in DOMAIN users, leader_id \in AnyIds, text \in QuestionTexts :
        submit_question_to_leader(caller, leader_id, text)

AnswerQuestion ==
    \E caller \in DOMAIN users, question_id \in AnyRowIds(questions),
       text \in AnswerTexts :
        answer_worshiper_question(caller, question_id, text)

CreatePost ==
    \E caller \in DOMAIN users, text \in PostTexts, scheduled_at \in ScheduleTimes :
        create_leader_post(caller, text, scheduled_at)

\* A leader posts for immediate publication.
PublishPost ==
    \E caller \in Leaders, text \in PostTexts : create_leader_post(caller, text, None)

Like == \E caller \in DOMAIN users, post_id \in AnyRowIds(posts) :
            like_a_post(caller, post_id)

Unlike == \E caller \in DOMAIN users, post_id \in AnyRowIds(posts) :
              unlike_a_post(caller, post_id)

Save == \E caller \in DOMAIN users, post_id \in AnyRowIds(posts) :
            save_a_post(caller, post_id)

Unsave == \E caller \in DOMAIN users, post_id \in AnyRowIds(posts) :
              unsave_a_post(caller, post_id)

AddComment ==
    \E caller \in DOMAIN users, post_id \in AnyRowIds(posts), text \in CommentTexts :
        add_comment_to_post(caller, post_id, text)

FollowCall == \E worshiper_id \in DOMAIN users, leader_id \in AnyIds :
                  follow_leader_call(worshiper_id, leader_id)

GetNotifications ==
    \E caller \in DOMAIN users, limit \in NotificationLimits, include_read \in BOOLEAN :
        get_notifications(caller, limit, include_read)

MarkNotificationRead ==
    \E caller \in DOMAIN users, notification_id \in AnyRowIds(notifications) :
        mark_notification_read(caller, notification_id)

MarkAllRead == \E caller \in DOMAIN users : mark_all_read(caller)

FollowLookup ==
    \E slot \in DOMAIN inflight, caller \in DOMAIN users, leader_id \in AnyIds :
        follow_leader_lookup(slot, caller, leader_id)

FollowInsert == \E slot \in DOMAIN inflight : follow_leader_insert(slot)

UpdateProfile ==
    \E caller \in DOMAIN users, body \in ProfileBodies :
        update_current_user_profile(caller, body)

GetChatConversation ==
    \E caller \in DOMAIN users, chat_id \in AnyRowIds(chats) :
        get_chat_conversation(caller, chat_id)

FollowNotificationFails ==
    \E caller \in DOMAIN users, leader_id \in AnyIds :
        follow_leader_notification_fails(caller, leader_id)

SendMessageNotificationFails ==
    \E caller \in DOMAIN users, chat_id \in AnyRowIds(chats), text \in MessageTexts :
        send_message_notification_fails(caller, chat_id, text)

AnswerNotificationFails ==
    \E caller \in DOMAIN users, question_id \in AnyRowIds(questions),
       text \in AnswerTexts :
        answer_question_notification_fails(caller, question_id, text)

NextFollows == Follow \/ Unfollow

InitFollows == InitWith(TwoWorshipersOneLeader, {})

SpecFollows == InitFollows /\ [][NextFollows]_vars

NextChats ==
    \/ Follow
    \/ SendFirstMessageLookup
    \/ SendFirstMessageInsert
    \/ SendMessage
    \/ MarkChatRead

InitChats == InitWith(TwoWorshipersOneLeader, {"r1"})

SpecChats == InitChats /\ [][NextChats]_vars

NextChatRace ==
    \/ Follow
    \/ SendFirstMessageLookup
    \/ SendFirstMessageInsert

InitChatRace == InitWith(TwoWorshipersOneLeader, {"r1", "r2"})

SpecChatRace == InitChatRace /\ [][NextChatRace]_vars

NextQuestions ==
    \/ Follow
    \/ AskQuestion
    \/ AnswerQuestion
    \/ Tick

InitQuestions == InitWith(OneWorshiperOneLeader, {})

SpecQuestions == InitQuestions /\ [][NextQuestions]_vars

NextInbox ==
    \/ Follow
    \/ AskQuestion
    \/ AnswerQuestion

InitInbox == InitWith(OneWorshiperTwoLeaders, {})

SpecInbox == InitInbox /\ [][NextInbox]_vars

NextPosts ==
    \/ Follow
    \/ CreatePost
    \/ Tick

InitPosts == InitWith(TwoWorshipersOneLeader, {})

SpecPosts == InitPosts /\ [][NextPosts]_vars

NextEngagement ==
    \/ PublishPost
    \/ Like
    \/ Unlike
    \/ Save
    \/ Unsave

InitEngagement == InitWith(TwoWorshipersOneLeader, {})

SpecEngagement == InitEngagement /\ [][NextEngagement]_vars

NextRetry ==
    \/ Follow
    \/ SendFirstMessageLookup
    \/ SendFirstMessageInsert
    \/ MarkChatRead
    \/ PublishPost
    \/ Like
    \/ Save

InitRetry == InitWith(OneWorshiperOneLeader, {"r1"})

SpecRetry == InitRetry /\ [][NextRetry]_vars

NextFollowCalls == Follow \/ FollowCall \/ Unfollow

InitFollowCalls == InitWith(OneWorshiperTwoLeaders, {})

SpecFollowCalls == InitFollowCalls /\ [][NextFollowCalls]_vars

\* The tables of SpecQuiet hold at most QuietRows posts, questions and
\* follow ids each.
QuietCaps ==
    /\ Len(posts) <= QuietRows
    /\ Len(questions) <= QuietRows
    /\ follow_seq <= QuietRows

NextQuiet ==
    \/ Follow /\ QuietCaps'
    \/ Unfollow
    \/ PublishPost /\ QuietCaps'
    \/ Like
    \/ Unlike
    \/ Save
    \/ Unsave
    \/ AddComment
    \/ AskQuestion /\ QuietCaps'

InitQuiet == InitWith(OneWorshiperOneLeader, {})

SpecQuiet == InitQuiet /\ [][NextQuiet]_vars

\* The notification feed of a leader and a follower.
NextNotifications ==
    \/ Follow
    \/ PublishPost
    \/ GetNotifications
    \/ MarkNotificationRead
    \/ MarkAllRead

InitNotifications == InitWith(OneWorshiperOneLeader, {})

SpecNotifications == InitNotifications /\ [][NextNotifications]_vars

\* Two follow requests in flight at once.
NextFollowRace ==
    \/ FollowLookup
    \/ FollowInsert
    \/ Unfollow

InitFollowRace == InitWith(TwoWorshipersOneLeader, {"r1", "r2"})

SpecFollowRace == InitFollowRace /\ [][NextFollowRace]_vars

\* Rows between users whose profiles are edited.
NextRoles ==
    \/ Follow /\ QuietCaps'
    \/ Unfollow
    \/ SendFirstMessageLookup
    \/ SendFirstMessageInsert
    \/ AskQuestion /\ QuietCaps'
    \/ UpdateProfile

InitRoles == InitWith(OneWorshiperOneLeader, {"r1"})

SpecRoles == InitRoles /\ [][NextRoles]_vars

\* A chat that outlives the follow edge it was opened under.
NextUnfollowChat ==
    \/ Follow
    \/ Unfollow
    \/ SendFirstMessageLookup
    \/ SendFirstMessageInsert
    \/ SendMessage

InitUnfollowChat == InitWith(OneWorshiperOneLeader, {"r1"})

SpecUnfollowChat == InitUnfollowChat /\ [][NextUnfollowChat]_vars

\* Conversations read back while messages are sent and time passes.
NextConversation ==
    \/ Follow
    \/ SendFirstMessageLookup
    \/ SendFirstMessageInsert
    \/ SendMessage
    \/ GetChatConversation
    \/ Tick

InitConversation == InitWith(OneWorshiperTwoLeaders, {"r1"})

SpecConversation == InitConversation /\ [][NextConversation]_vars

\* Follows, messages and answers while the notification insert can fail.
OutageCaps == Len(questions) <= QuietRows

NextOutage ==
    \/ Follow
    \/ FollowNotificationFails
    \/ SendFirstMessageLookup
    \/ SendFirstMessageInsert
    \/ SendMessage
    \/ SendMessageNotificationFails
    \/ AskQuestion /\ OutageCaps'
    \/ AnswerQuestion
    \/ AnswerNotificationFails

InitOutage == InitWith(OneWorshiperOneLeader, {"r1"})

SpecOutage == InitOutage /\ [][NextOutage]_vars

-----------------------------------------------------------------------------
(* Properties *)

NewFollowerCount(table, leader_id, name) ==
    Cardinality({i \in DOMAIN table :
                    /\ table[i].type = "new_follower"
                    /\ table[i].user_id = leader_id
                    /\ table[i].message[1] = name})

\* C1: a follow by worshiper w of leader l succeeds and leaves exactly one
\* Follow row for (w, l); when the edge was already there (the second of two
\* calls) the follows and notifications tables are unchanged and the existing
\* row is returned, and when it was not, exactly one new_follower notification
\* is created for l.  Two calls in sequence so create at most one.
C1_FollowStep ==
    \A w \in Worshipers, l \in Leaders :
        follow_leader_endpoint(w, l) =>
            /\ last'.status = HTTP_200_OK
            /\ Cardinality(FollowRows(follows', w, l)) = 1
            /\ IF is_following(follows, w, l)
               THEN /\ follows' = follows
                    /\ notifications' = notifications
                    /\ last'.ret = "existing_follow"
               ELSE /\ Len(notifications') = Len(notifications) + 1
                    /\ NewFollowerCount(notifications', l, users[w].name) =
                           NewFollowerCount(notifications, l, users[w].name) + 1

C1_FollowTwice == [][C1_FollowStep]_vars

\* C1 witness: the second follow of the same pair has returned the existing
\* edge; there is one row and one new_follower notification.
C1_Witness ==
    /\ last.op = "follow_leader"
    /\ last.ret = "existing_follow"
    /\ Cardinality(FollowRows(follows, last.caller, last.args[1])) = 1
    /\ NewFollowerCount(notifications, last.args[1], users[last.caller].name) = 1

Participants(chat) == {chat.worshiper_id, chat.leader_id}

\* C3: mark-read by participant A of chat c sets is_read on exactly the unread
\* messages of c sent by the other participant B, and leaves every message sent
\* by A and every message of every other chat as it was.
C3_MarkReadStep ==
    \A a \in DOMAIN users, c \in DOMAIN chats :
        (mark_chat_as_read(a, c) /\ a \in Participants(chats[c])) =>
            /\ DOMAIN messages' = DOMAIN messages
            /\ \A i \in DOMAIN messages :
                  messages'[i] =
                     IF /\ messages[i].chat_id = c
                        /\ {messages[i].sender_id} = Participants(chats[c]) \ {a}
                        /\ ~messages[i].is_read
                     THEN [messages[i] EXCEPT !.is_read = TRUE]
                     ELSE messages[i]

C3_MarkReadExact == [][C3_MarkReadStep]_vars

\* C3 witness: after a mark-read of chat c by A, a message of B in c is read,
\* a message of A in c is still unread, and another chat holds an unread
\* message that A did not send.
C3_Witness ==
    /\ last.op = "mark_chat_as_read"
    /\ last.status = HTTP_204_NO_CONTENT
    /\ \E i, j, k \in DOMAIN messages :
          /\ messages[i].chat_id = last.args[1]
          /\ messages[i].sender_id # last.caller
          /\ messages[i].is_read
          /\ messages[j].chat_id = last.args[1]
          /\ messages[j].sender_id = last.caller
          /\ ~messages[j].is_read
          /\ messages[k].chat_id # last.args[1]
          /\ messages[k].sender_id # last.caller
          /\ ~messages[k].is_read

\* C4: send-first-message by a worshiper with no Follow edge to the leader, or
\* by a leader, is answered Forbidden and creates no Chat, Message or
\* Notification row (nor goes on to the chat insert).
C4_ForbiddenStep ==
    \A slot \in DOMAIN inflight, u \in DOMAIN users, l \in AnyIds, text \in MessageTexts :
        (/\ send_first_message_lookup(slot, u, l, text)
         /\ \/ users[u].role # WORSHIPER
            \/ FollowRows(follows, u, l) = {}) =>
            /\ last'.op = "send_first_message"
            /\ last'.status = HTTP_403_FORBIDDEN
            /\ chats' = chats
            /\ messages' = messages
            /\ notifications' = notifications
            /\ inflight' = inflight

C4_NoFollowForbidden == [][C4_ForbiddenStep]_vars

\* C4 witness: a worshiper with no Follow edge to the leader has been refused.
C4_Witness ==
    /\ last.op = "send_first_message"
    /\ last.status = HTTP_403_FORBIDDEN
    /\ users[last.caller].role = WORSHIPER
    /\ last.args[1] \in Leaders
    /\ FollowRows(follows, last.caller, last.args[1]) = {}
    /\ ChatRows(chats, last.caller, last.args[1]) = {}

\* C5: a first message of W to L that found no chat and created one leaves
\* exactly one Chat row for (W, L), exactly one Message in it (sender W,
\* unread), and exactly one new_message notification referencing that chat,
\* addressed to L.
C5_FirstMessage ==
    (last.op = "send_first_message" /\ last.ret = "new chat") =>
        LET w == last.caller
            l == last.args[1]
            cs == ChatRows(chats, w, l)
        IN  /\ last.status = HTTP_201_CREATED
            /\ Cardinality(cs) = 1
            /\ \A c \in cs :
                  LET ms == {i \in DOMAIN messages : messages[i].chat_id = c.id}
                      ns == {i \in DOMAIN notifications :
                                /\ notifications[i].type = "new_message"
                                /\ notifications[i].reference_id = Some(c.id)}
                  IN  /\ Cardinality(ms) = 1
                      /\ \A i \in ms : /\ messages[i].sender_id = w
                                        /\ messages[i].is_read = FALSE
                                        /\ messages[i].content_text = last.text
                      /\ Cardinality(ns) = 1
                      /\ \A i \in ns : /\ notifications[i].user_id = l
                                        /\ notifications[i].reference_type = Some("chat")

\* C5 witness: a worshiper who follows the leader has opened a new chat.
C5_Witness ==
    /\ last.op = "send_first_message"
    /\ last.ret = "new chat"
    /\ last.status = HTTP_201_CREATED
    /\ Len(chats) = 1

ChatPairUnique ==
    \A i, j \in DOMAIN chats :
        (chats[i].worshiper_id = chats[j].worshiper_id
            /\ chats[i].leader_id = chats[j].leader_id) => i = j

C10_LoserStep ==
    \A slot \in DOMAIN inflight :
        (/\ send_first_message_insert(slot)
         /\ ChatRows(chats, inflight[slot][1].worshiper_id,
                     inflight[slot][1].leader_id) # {}) =>
            /\ last'.status = HTTP_500_INTERNAL_SERVER_ERROR
            /\ last'.detail = "IntegrityError"
            /\ chats' = chats
            /\ messages' = messages
            /\ notifications' = notifications

\* C10: there is at most one Chat per (worshiper, leader) pair in every state,
\* and a first-message request that passed the lookup but finds the pair's
\* chat inserted by the time of its own insert ends in an integrity error:
\* no chat, message or notification is stored for it.
C10_ChatRace == []ChatPairUnique /\ [][C10_LoserStep]_vars

\* C10 witness: two requests of one pair both passed the lookup; one created
\* the chat and stored its message, the other ended in the integrity error.
C10_Witness ==
    /\ last.op = "send_first_message"
    /\ last.status = HTTP_500_INTERNAL_SERVER_ERROR
    /\ Cardinality(ChatRows(chats, last.caller, last.args[1])) = 1
    /\ Len(messages) = 1

\* The row answer_question leaves for a call made at the present instant.
Answered(question, answer_text) ==
    [question EXCEPT !.answer_text = Some(answer_text),
                     !.answered = TRUE,
                     !.answered_at = Some(now)]

C7_AnswerStep ==
    \A l \in Leaders, i \in DOMAIN questions, t \in AnswerTexts :
        (answer_worshiper_question(l, i, t) /\ questions[i].leader_id = l) =>
            /\ last'.status = HTTP_200_OK
            /\ questions'[i].answer_text = Some(t)
            /\ questions'[i].answered = TRUE
            /\ questions'[i].answered_at = Some(now)

\* C7: every answerQuestion call by the owning leader succeeds, on a pending
\* and on an already answered question alike, and leaves answerText equal to
\* the text of that call, answered true and answeredAt equal to the time of
\* that call; after two calls with different texts the stored answer is so
\* the second text with the time of the second call.
C7_AnswerTwice == [][C7_AnswerStep]_vars

\* C7 witness: the second answer to a question has replaced a different first
\* text given at an earlier time.
C7_Witness ==
    /\ last.op = "answer_question"
    /\ last.status = HTTP_200_OK
    /\ last.before # None
    /\ last.before[1].answered
    /\ last.before[1].answer_text # Some(last.text)
    /\ last.before[1].answered_at # Some(now)
    /\ questions[last.args[1]].answer_text = Some(last.text)
    /\ questions[last.args[1]].answered
    /\ questions[last.args[1]].answered_at = Some(now)

C8_TerminalStep ==
    \A i \in DOMAIN questions :
        questions[i].answered =>
            /\ questions'[i].answered
            /\ questions'[i].answer_text = questions[i].answer_text
            /\ questions'[i].answered_at = questions[i].answered_at

\* C8 as stated: once a question is answered, no later operation sets
\* answered back to false or changes answerText or answeredAt.
C8_AnsweredTerminal == [][C8_TerminalStep]_vars

C8_PendingShape ==
    \A i \in DOMAIN questions :
        IF questions[i].answered
        THEN questions[i].answer_text # None /\ questions[i].answered_at # None
        ELSE questions[i].answer_text = None /\ questions[i].answered_at = None

C8_QuestionStep ==
    \A i \in DOMAIN questions :
        /\ i \in DOMAIN questions'
        /\ questions[i].answered => questions'[i].answered
        /\ questions'[i] # questions[i] =>
              \E l \in Leaders, t \in AnswerTexts :
                  /\ answer_worshiper_question(l, i, t)
                  /\ questions[i].leader_id = l
                  /\ last'.status = HTTP_200_OK
                  /\ questions'[i] = Answered(questions[i], t)

\* C8 amended: a question is pending (answered false, answerText and
\* answeredAt null) until its leader answers it; answered never goes back to
\* false; and a question's row changes only through a successful
\* answerQuestion by the leader it is addressed to, which sets answerText to
\* the text and answeredAt to the time of that call, also when the question
\* was answered before.
C8_AnsweredStays == []C8_PendingShape /\ [][C8_QuestionStep]_vars

\* C8 witness: an answered question has been answered again with another
\* text and is still answered, while another question is still pending.
C8_Witness ==
    /\ last.op = "answer_question"
    /\ last.before # None
    /\ last.before[1].answered
    /\ last.before[1].answer_text # questions[last.args[1]].answer_text
    /\ questions[last.args[1]].answered
    /\ \E j \in DOMAIN questions : ~questions[j].answered

\* C9: for every leader, every result of listLeaderQuestions has only
\* unanswered questions in pending and only answered ones in answered, the
\* two groups share no question and repeat none, and together they hold
\* exactly the questions whose leaderId is that leader.
C9_InboxPartition ==
    \A l \in Leaders :
        \A r \in get_leader_questions(l) :
            LET mine == {q \in Range(questions) : q.leader_id = l} IN
            /\ \A i \in DOMAIN r.pending : ~r.pending[i].answered
            /\ \A i \in DOMAIN r.answered : r.answered[i].answered
            /\ Range(r.pending) \cap Range(r.answered) = {}
            /\ Range(r.pending) \cup Range(r.answered) = mine
            /\ Len(r.pending) + Len(r.answered) = Cardinality(mine)

\* C9 witness: a leader's inbox has a pending and an answered question while
\* another leader has a question too.
C9_Witness ==
    \E l \in Leaders :
        /\ \E r \in get_leader_questions(l) :
              Len(r.pending) > 0 /\ Len(r.answered) > 0
        /\ \E q \in Range(questions) : q.leader_id # l

\* C2: when a worshiper has made the requests like, like, unlike, unlike on
\* an existing post one after the other, from whatever state, there is no
\* PostLike row for that (post, user) pair, and the likes_count that
\* get_post_engagement_stats reports equals the count before the run when the
\* user had no like then (one less when the user had one); save, save,
\* unsave, unsave leaves no PostSave row for the pair in the same way.
C2_LikeUnlikeRun ==
    run.stage = 4 =>
        LET stats == get_post_engagement_stats(run.post_id, run.user_id) IN
        /\ LikeRows(IF run.kind = "like" THEN post_likes ELSE post_saves,
                    run.post_id, run.user_id) = {}
        /\ IF run.kind = "like" THEN ~stats.is_liked ELSE ~stats.is_saved
        /\ (run.kind = "like" /\ ~run.had) => stats.likes_count = run.base
        /\ (run.kind = "like" /\ run.had) => stats.likes_count = run.base - 1

\* C2 witness: a like, like, unlike, unlike run has ended on a post that
\* another worshiper likes, by a user who had no like when it began.
C2_Witness ==
    /\ run.stage = 4
    /\ run.kind = "like"
    /\ ~run.had
    /\ run.base = 1
    /\ last.op = "unlike_post"
    /\ last.detail = "Post not liked"
    /\ get_post_engagement_stats(run.post_id, run.user_id).likes_count = 1

C6_CreateStep ==
    \A l \in Leaders, text \in PostTexts, scheduled_at \in ScheduleTimes :
        create_leader_post(l, text, scheduled_at) =>
            /\ Len(posts') = Len(posts) + 1
            /\ posts'[Len(posts')].scheduled_at = scheduled_at
            /\ posts'[Len(posts')].created_at = now
            /\ posts'[Len(posts')].is_published = FALSE
                  <=> (scheduled_at # None /\ scheduled_at[1] > now)

C6_ScheduledListing ==
    \A p \in Range(posts) :
        /\ p.is_published = FALSE
              <=> (p.scheduled_at # None /\ p.scheduled_at[1] > p.created_at)
        /\ p.is_published = FALSE =>
              /\ \A listing \in get_my_posts(p.leader_id) :
                    \E i \in DOMAIN listing.posts :
                        /\ listing.posts[i].id = p.id
                        /\ listing.posts[i].status = "scheduled"
              /\ \A viewer \in DOMAIN users, page \in FeedPages, size \in FeedPageSizes :
                    \A feed \in get_explore_feed(viewer, page, size) :
                        \A i \in DOMAIN feed.posts : feed.posts[i].id # p.id

\* C6: a post is created with isPublished false exactly when its scheduledAt
\* is set and lies strictly after the time of creation (none, the present or
\* a past instant give isPublished true); and a post with isPublished false
\* is listed with status "scheduled" in its leader's own post list and is on
\* no page of the explore feed, for any viewer.
C6_ScheduledPost == []C6_ScheduledListing /\ [][C6_CreateStep]_vars

\* C6 witness: a post scheduled for a later instant is stored unpublished next
\* to a published post of the same leader, which the explore feed shows.
C6_Witness ==
    /\ last.op = "create_post"
    /\ last.status = HTTP_201_CREATED
    /\ posts[last.args[1]].is_published = FALSE
    /\ posts[last.args[1]].scheduled_at # None
    /\ \E p \in Range(posts) :
          /\ p.is_published
          /\ p.scheduled_at = Some(p.created_at)
          /\ \E feed \in get_explore_feed(1, 1, 1) : feed.posts[1].id = p.id

\* The last request served was the first, state-changing call of one of the
\* idempotent operations.
C11_FirstChanged ==
    \/ last.op = "follow_leader" /\ last.ret = "new_follow"
    \/ last.op = "like_post" /\ last.detail = "Post liked"
    \/ last.op = "save_post" /\ last.detail = "Post saved"
    \/ last.op = "mark_chat_as_read" /\ last.ret = "rowcount above 0"

\* This step serves the same request again.
C11_Repeats ==
    \/ last.op = "follow_leader" /\ follow_leader_endpoint(last.caller, last.args[1])
    \/ last.op = "like_post" /\ like_a_post(last.caller, last.args[1])
    \/ last.op = "save_post" /\ save_a_post(last.caller, last.args[1])
    \/ last.op = "mark_chat_as_read" /\ mark_chat_as_read(last.caller, last.args[1])

C11_DistinctStep ==
    (C11_FirstChanged /\ C11_Repeats) =>
        /\ last'.status < HTTP_400_BAD_REQUEST
        /\ Visible(last') # Visible(last)

\* C11 as stated: the repeated call of follow, like, save or mark-read is no
\* error and its response differs from the response of the first call.
C11_RetryDistinguishable == [][C11_DistinctStep]_vars

NoUnreadFor(chat_id, user_id) ==
    \A i \in DOMAIN messages :
        (messages[i].chat_id = chat_id /\ messages[i].sender_id # user_id)
            => messages[i].is_read

C11_Unchanged ==
    UNCHANGED <<follows, post_likes, post_saves, messages, chats, notifications>>

C11_InPlaceStep ==
    /\ \A w \in Worshipers, l \in Leaders :
          (follow_leader_endpoint(w, l) /\ is_following(follows, w, l)) =>
              last'.status = HTTP_200_OK /\ C11_Unchanged
    /\ \A w \in Worshipers, p \in DOMAIN posts :
          (like_a_post(w, p) /\ LikeRows(post_likes, p, w) # {}) =>
              /\ last'.status = HTTP_200_OK
              /\ last'.detail = "Post already liked"
              /\ C11_Unchanged
    /\ \A w \in Worshipers, p \in DOMAIN posts :
          (save_a_post(w, p) /\ LikeRows(post_saves, p, w) # {}) =>
              /\ last'.status = HTTP_200_OK
              /\ last'.detail = "Post already saved"
              /\ C11_Unchanged
    /\ \A a \in DOMAIN users, c \in DOMAIN chats :
          (mark_chat_as_read(a, c) /\ a \in Participants(chats[c])
              /\ NoUnreadFor(c, a)) =>
              last'.status = HTTP_204_NO_CONTENT /\ C11_Unchanged

C11_RetryStep ==
    (C11_FirstChanged /\ C11_Repeats) =>
        /\ last'.status \in {HTTP_200_OK, HTTP_204_NO_CONTENT}
        /\ C11_Unchanged
        /\ IF last.op \in {"like_post", "save_post"}
           THEN Visible(last') # Visible(last)
           ELSE Visible(last') = Visible(last)

\* C11 amended: re-applying follow, like, save or mark-read when its effect
\* is already in place is never an error and changes no row; the repeated
\* like and save answer with a message ("Post already liked", "Post already
\* saved") that differs from the first call's, while the repeated follow and
\* the repeated mark-read answer exactly as the first call did (same status,
\* same body).
C11_RetrySafe == [][C11_InPlaceStep /\ C11_RetryStep]_vars

\* C11 witness: a chat has been marked read a second time by the same
\* participant: nothing was left to mark, and the messages of the other
\* participant are read.
C11_Witness ==
    /\ last.op = "mark_chat_as_read"
    /\ last.status = HTTP_204_NO_CONTENT
    /\ last.ret = "rowcount 0"
    /\ \E i \in DOMAIN messages :
          /\ messages[i].chat_id = last.args[1]
          /\ messages[i].sender_id # last.caller
          /\ messages[i].is_read

C12_UnguardedStep ==
    \A u \in DOMAIN users :
        follow_leader_call(u, u) => last'.detail # "Cannot follow yourself"

\* C12 as stated: follow has no self-follow guard, so no call with
\* worshiperId = leaderId is rejected for being a self-follow.
C12_NoSelfFollowGuard == [][C12_UnguardedStep]_vars

C12_NoSelfEdge == \A f \in follows : f.worshiper_id # f.leader_id

C12_SelfFollowStep ==
    \A u \in DOMAIN users :
        /\ follow_leader_call(u, u) =>
              /\ last'.status = HTTP_400_BAD_REQUEST
              /\ last'.detail = IF users[u].role = LEADER
                                THEN "Cannot follow yourself"
                                ELSE "User is not a leader"
              /\ UNCHANGED <<follows, follow_seq, notifications>>
        /\ follow_leader_endpoint(u, u) =>
              /\ <<last'.status, last'.detail>> =
                    IF users[u].role # WORSHIPER
                    THEN <<HTTP_403_FORBIDDEN, "Only worshipers can perform this action">>
                    ELSE <<HTTP_400_BAD_REQUEST, "User is not a leader">>
              /\ UNCHANGED <<follows, follow_seq, notifications>>

\* C12 amended: follow(worshiperId, leaderId) has an explicit self-follow
\* guard, placed after the validation of the target: a call with
\* worshiperId = leaderId whose target is a Leader is rejected with
\* BadRequest "Cannot follow yourself", and no Follow row ever joins a user to
\* itself.  Through the HTTP route the guard is never the one that rejects:
\* there the caller must be a Worshiper and the target a Leader, so a
\* self-follow is rejected by one of the role checks first.
C12_SelfFollowGuarded == []C12_NoSelfEdge /\ [][C12_SelfFollowStep]_vars

\* C12 witness: a leader's id passed as both worshiper and leader has been
\* rejected by the self-follow guard.
C12_Witness ==
    /\ last.op = "follow_leader"
    /\ last.status = HTTP_400_BAD_REQUEST
    /\ last.detail = "Cannot follow yourself"
    /\ last.caller = last.args[1]
    /\ last.caller \in Leaders

C13_Served(caller, post_id) ==
    \/ like_a_post(caller, post_id)
    \/ unlike_a_post(caller, post_id)
    \/ save_a_post(caller, post_id)
    \/ unsave_a_post(caller, post_id)

C13_EngagementStep ==
    \A caller \in DOMAIN users, post_id \in AnyRowIds(posts) :
        C13_Served(caller, post_id) =>
            IF users[caller].role # WORSHIPER
            THEN /\ last'.status = HTTP_403_FORBIDDEN
                 /\ UNCHANGED <<post_likes, post_saves>>
            ELSE IF post_id \notin DOMAIN posts
            THEN /\ last'.status = HTTP_404_NOT_FOUND
                 /\ UNCHANGED <<post_likes, post_saves>>
            ELSE last'.status = HTTP_200_OK

\* C13: like, unlike, save and unsave are accepted only from a Worshiper on
\* an existing post: a caller of another role is answered Forbidden, also
\* when the post does not exist (the role is checked first), a Worshiper
\* naming a missing post is answered NotFound, and a rejected request leaves
\* the PostLike and PostSave rows as they were.
C13_EngagementGuards == [][C13_EngagementStep]_vars

\* C13 witness: a leader's request on a post id that does not exist has been
\* answered Forbidden, not NotFound, while a worshiper's like is stored.
C13_Witness ==
    /\ last.op \in {"like_post", "unlike_post", "save_post", "unsave_post"}
    /\ last.status = HTTP_403_FORBIDDEN
    /\ last.caller \in Leaders
    /\ last.args[1] \notin DOMAIN posts
    /\ post_likes # {}

C14_QuietRequest ==
    \/ Like
    \/ Unlike
    \/ Save
    \/ Unsave
    \/ AddComment
    \/ AskQuestion
    \/ Unfollow
    \/ \E w \in DOMAIN users, l \in AnyIds :
           follow_leader_endpoint(w, l) /\ is_following(follows, w, l)

\* C14: a like, unlike, save, unsave, addComment, askQuestion or unfollow
\* request, accepted or rejected, and a follow request on an edge that
\* already exists, leave the notifications table exactly as it was: no row
\* is added, changed or removed.
C14_NoNotification == [][C14_QuietRequest => notifications' = notifications]_vars

\* C14 witness: with a new_follower and a new_post notification stored, a
\* comment has been added next to a like and a question, and the two
\* notifications are all there is.
C14_Witness ==
    /\ last.op = "add_comment"
    /\ last.status = HTTP_201_CREATED
    /\ post_likes # {}
    /\ questions # <<>>
    /\ Len(notifications) = 2
    /\ {notifications[i].type : i \in DOMAIN notifications} = {"new_follower", "new_post"}

C15_SendStep ==
    \A p \in DOMAIN users, c \in AnyRowIds(chats), text \in MessageTexts :
        send_message_to_chat(p, c, text) =>
            IF c \notin DOMAIN chats
            THEN /\ last'.status = HTTP_404_NOT_FOUND
                 /\ UNCHANGED <<messages, notifications>>
            ELSE IF p \notin Participants(chats[c])
            THEN /\ last'.status = HTTP_403_FORBIDDEN
                 /\ UNCHANGED <<messages, notifications>>
            ELSE /\ last'.status = HTTP_201_CREATED
                 /\ Len(messages') = Len(messages) + 1
                 /\ SubSeq(messages', 1, Len(messages)) = messages
                 /\ messages'[Len(messages')].chat_id = c
                 /\ messages'[Len(messages')].sender_id = p
                 /\ messages'[Len(messages')].is_read = FALSE
                 /\ Len(notifications') = Len(notifications) + 1
                 /\ SubSeq(notifications', 1, Len(notifications)) = notifications
                 /\ notifications'[Len(notifications')].type = "new_message"
                 /\ {notifications'[Len(notifications')].user_id} =
                        Participants(chats[c]) \ {p}
                 /\ notifications'[Len(notifications')].reference_type = Some("chat")
                 /\ notifications'[Len(notifications')].reference_id = Some(c)

\* C15: a sendMessage by participant P of chat C succeeds, appends exactly
\* one Message (chat C, sender P, isRead false) and creates exactly one
\* new_message Notification, addressed to the other participant of C (never
\* to P) and referencing C; a caller who is no participant of C is answered
\* Forbidden, a chat id that does not exist NotFound, and then no Message and
\* no Notification is created.
C15_SendMessage == [][C15_SendStep]_vars

\* C15 witness: a leader has replied in a chat a worshiper opened; the newest
\* notification tells the worshiper, and the leader's message is unread.
C15_Witness ==
    /\ last.op = "send_message"
    /\ last.status = HTTP_201_CREATED
    /\ last.caller \in Leaders
    /\ Len(messages) >= 2
    /\ messages[Len(messages)].sender_id = last.caller
    /\ ~messages[Len(messages)].is_read
    /\ notifications[Len(notifications)].type = "new_message"
    /\ notifications[Len(notifications)].user_id = chats[last.args[1]].worshiper_id

C16_AskStep ==
    \A u \in DOMAIN users, l \in AnyIds, text \in QuestionTexts :
        submit_question_to_leader(u, l, text) =>
            IF users[u].role = WORSHIPER /\ FollowRows(follows, u, l) # {}
            THEN /\ last'.status = HTTP_201_CREATED
                 /\ Len(questions') = Len(questions) + 1
                 /\ SubSeq(questions', 1, Len(questions)) = questions
                 /\ questions'[Len(questions')].worshiper_id = u
                 /\ questions'[Len(questions')].leader_id = l
                 /\ questions'[Len(questions')].answered = FALSE
                 /\ questions'[Len(questions')].answer_text = None
                 /\ questions'[Len(questions')].answered_at = None
            ELSE /\ last'.status = HTTP_403_FORBIDDEN
                 /\ questions' = questions

\* C16: askQuestion succeeds exactly when the caller is a Worshiper and a
\* Follow edge from the caller to the leader exists when the call is made;
\* otherwise it is answered Forbidden and the questions table is unchanged.
\* The question a successful call appends has answered false and answerText
\* and answeredAt null.
C16_AskNeedsFollow == [][C16_AskStep]_vars

\* C16 witness: a worshiper who asked a question while following the leader
\* has unfollowed and is refused a further question; the first is pending.
C16_Witness ==
    /\ last.op = "ask_question"
    /\ last.status = HTTP_403_FORBIDDEN
    /\ last.caller \in Worshipers
    /\ last.args[1] \in Leaders
    /\ FollowRows(follows, last.caller, last.args[1]) = {}
    /\ \E i \in DOMAIN questions :
          /\ questions[i].worshiper_id = last.caller
          /\ questions[i].leader_id = last.args[1]
          /\ ~questions[i].answered

C17_AnswerGuardStep ==
    \A u \in DOMAIN users, i \in AnyRowIds(questions), t \in AnswerTexts :
        answer_worshiper_question(u, i, t) =>
            IF users[u].role # LEADER
            THEN /\ last'.status = HTTP_403_FORBIDDEN
                 /\ UNCHANGED <<questions, notifications>>
            ELSE IF i \notin DOMAIN questions
            THEN /\ last'.status = HTTP_404_NOT_FOUND
                 /\ UNCHANGED <<questions, notifications>>
            ELSE IF questions[i].leader_id # u
            THEN /\ last'.status = HTTP_403_FORBIDDEN
                 /\ UNCHANGED <<questions, notifications>>
            ELSE /\ last'.status = HTTP_200_OK
                 /\ \A j \in DOMAIN questions : j # i => questions'[j] = questions[j]

C17_OnlyOwnerStep ==
    \A i \in DOMAIN questions :
        (i \in DOMAIN questions' /\ questions'[i] # questions[i]) =>
            /\ last'.op = "answer_question"
            /\ last'.status = HTTP_200_OK
            /\ last'.caller = questions[i].leader_id
            /\ last'.args = <<i>>

\* C17: answerQuestion changes a Question only when the caller is a Leader
\* and is the leader the question is addressed to: a Worshiper is answered
\* Forbidden, a leader naming another leader's question Forbidden, a leader
\* naming a missing question id NotFound, and a rejected call leaves every
\* Question unchanged and creates no Notification.
C17_AnswerGuards == [][C17_AnswerGuardStep /\ C17_OnlyOwnerStep]_vars

\* C17 witness: a leader has been refused the answer to a question addressed
\* to another leader; the question is still pending.
C17_Witness ==
    /\ last.op = "answer_question"
    /\ last.status = HTTP_403_FORBIDDEN
    /\ last.caller \in Leaders
    /\ last.args[1] \in DOMAIN questions
    /\ questions[last.args[1]].leader_id # last.caller
    /\ ~questions[last.args[1]].answered

C18_MarkReadStep ==
    \A u \in DOMAIN users, i \in AnyRowIds(notifications) :
        mark_notification_read(u, i) =>
            IF i \in DOMAIN notifications /\ notifications[i].user_id = u
            THEN /\ last'.status = HTTP_200_OK
                 /\ notifications' = [notifications EXCEPT ![i].is_read = TRUE]
            ELSE /\ Visible(last') = <<HTTP_404_NOT_FOUND, "Notification not found">>
                 /\ last'.ret = "None"
                 /\ UNCHANGED notifications

C18_OwnerOnlyStep ==
    \A i \in DOMAIN notifications :
        (last'.op = "mark_notification_read" /\ notifications'[i] # notifications[i]) =>
            /\ last'.caller = notifications[i].user_id
            /\ last'.args = <<i>>
            /\ notifications'[i] = [notifications[i] EXCEPT !.is_read = TRUE]

\* C18: mark-as-read sets is_read on a notification only when the id exists
\* and the notification belongs to the caller; for an id that does not exist
\* and for another user's id the caller gets the same not-found answer, and
\* in both cases no notification is changed.
C18_MarkReadOwnerOnly == [][C18_MarkReadStep /\ C18_OwnerOnlyStep]_vars

\* C18 witness: a user has named another user's unread notification, was
\* answered not-found, and the notification is still unread.
C18_Witness ==
    /\ last.op = "mark_notification_read"
    /\ last.status = HTTP_404_NOT_FOUND
    /\ last.args[1] \in DOMAIN notifications
    /\ notifications[last.args[1]].user_id # last.caller
    /\ ~notifications[last.args[1]].is_read

C19_MarkAllStep ==
    \A u \in DOMAIN users :
        mark_all_read(u) =>
            /\ DOMAIN notifications' = DOMAIN notifications
            /\ \A i \in DOMAIN notifications :
                  notifications'[i] =
                      IF notifications[i].user_id = u /\ ~notifications[i].is_read
                      THEN [notifications[i] EXCEPT !.is_read = TRUE]
                      ELSE notifications[i]
            /\ last'.ret.marked_count =
                   Cardinality({i \in DOMAIN notifications :
                                   /\ notifications[i].user_id = u
                                   /\ ~notifications[i].is_read})

C19_AfterwardsStep ==
    last.op = "mark_all_read" =>
        /\ \A limit \in NotificationLimits, include_read \in BOOLEAN :
              get_notifications(last.caller, limit, include_read) =>
                  last'.ret.unread_count = 0
        /\ mark_all_read(last.caller) =>
              /\ last'.ret.marked_count = 0
              /\ UNCHANGED notifications

\* C19: mark-all-read sets is_read on exactly the caller's unread
\* notifications, returns their number and leaves every other notification
\* as it was; a listing by the same user right after it reports an unread
\* count of 0, and a second mark-all-read right after it returns 0.
C19_MarkAllRead == [][C19_MarkAllStep /\ C19_AfterwardsStep]_vars

\* C19 witness: a mark-all-read has flipped two notifications of the caller
\* while another user's notification stayed unread.
C19_Witness ==
    /\ last.op = "mark_all_read"
    /\ last.ret.marked_count = 2
    /\ \E i \in DOMAIN notifications :
          notifications[i].user_id # last.caller /\ ~notifications[i].is_read

C20_FailedStep ==
    /\ \A u \in DOMAIN users, l \in AnyIds :
          follow_leader_notification_fails(u, l) =>
              /\ last'.status = HTTP_500_INTERNAL_SERVER_ERROR
              /\ FollowRows(follows, u, l) = {}
              /\ FollowRows(follows', u, l) # {}
              /\ UNCHANGED notifications
    /\ \A u \in DOMAIN users, c \in AnyRowIds(chats), t \in MessageTexts :
          send_message_notification_fails(u, c, t) =>
              /\ last'.status = HTTP_500_INTERNAL_SERVER_ERROR
              /\ Len(messages') = Len(messages) + 1
              /\ messages'[Len(messages')].chat_id = c
              /\ messages'[Len(messages')].sender_id = u
              /\ messages'[Len(messages')].content_text = t
              /\ UNCHANGED notifications
    /\ \A u \in DOMAIN users, q \in AnyRowIds(questions), t \in AnswerTexts :
          answer_question_notification_fails(u, q, t) =>
              /\ last'.status = HTTP_500_INTERNAL_SERVER_ERROR
              /\ questions'[q].answered
              /\ questions'[q].answer_text = Some(t)
              /\ UNCHANGED notifications

C20_Persisted ==
    last.ret = "create_notification raised" =>
        /\ last.op = "follow_leader" =>
              FollowRows(follows, last.caller, last.args[1]) # {}
        /\ last.op = "send_message" =>
              \E i \in DOMAIN messages :
                  /\ messages[i].chat_id = last.args[1]
                  /\ messages[i].sender_id = last.caller
                  /\ messages[i].content_text = last.text
        /\ last.op = "answer_question" =>
              /\ questions[last.args[1]].answered
              /\ questions[last.args[1]].answer_text = Some(last.text)

\* C20: the primary row is committed before the notification is inserted:
\* when the notification insert of a follow fails, the request fails and
\* the Follow row is in the table all the same, without a notification;
\* likewise the Message of a send and the answer of an answered Question.
C20_PrimaryPersists == []C20_Persisted /\ [][C20_FailedStep]_vars

\* C20 witness: a follow has failed in its notification insert; the edge is
\* stored and the leader has no new_follower notification.
C20_Witness ==
    /\ last.op = "follow_leader"
    /\ last.ret = "create_notification raised"
    /\ FollowRows(follows, last.caller, last.args[1]) # {}
    /\ \A i \in DOMAIN notifications : notifications[i].type # "new_follower"

C21_MessageStep ==
    /\ Len(messages') >= Len(messages)
    /\ \A i \in DOMAIN messages :
          /\ messages'[i] = [messages[i] EXCEPT !.is_read = messages'[i].is_read]
          /\ messages'[i].is_read # messages[i].is_read =>
                /\ ~messages[i].is_read
                /\ messages'[i].is_read
                /\ last'.op = "mark_chat_as_read"
                /\ last'.status = HTTP_204_NO_CONTENT
                /\ last'.args = <<messages[i].chat_id>>
                /\ last'.caller # messages[i].sender_id
                /\ last'.caller \in {chats[messages[i].chat_id].worshiper_id,
                                     chats[messages[i].chat_id].leader_id}

\* C21: a message's is_read only goes from false to true, and only in a
\* mark-read on its chat by the participant who did not send it; a send, a
\* mark-read by the sender and a rejected mark-read leave it as it was, and
\* no request changes a message's content, sender or chat.
C21_ReadOnlyByRecipient == [][C21_MessageStep]_vars

\* C21 witness: a participant has marked a chat read; the other one's
\* message is now read, their own message in the same chat is still unread.
C21_Witness ==
    /\ last.op = "mark_chat_as_read"
    /\ last.status = HTTP_204_NO_CONTENT
    /\ \E i, j \in DOMAIN messages :
          /\ messages[i].chat_id = last.args[1]
          /\ messages[j].chat_id = last.args[1]
          /\ messages[i].sender_id # last.caller
          /\ messages[i].is_read
          /\ messages[j].sender_id = last.caller
          /\ ~messages[j].is_read

C22_Served ==
    last.op = "get_chat_conversation" /\ last.status = HTTP_200_OK

\* C22: a participant reading a conversation gets all messages of the chat,
\* oldest first by creation time.
C22_OldestFirst ==
    C22_Served =>
        /\ {last.ret[i] : i \in DOMAIN last.ret} = ChatMessages(last.args[1])
        /\ \A i, j \in DOMAIN last.ret :
              i < j => messages[last.ret[i]].created_at <= messages[last.ret[j]].created_at

C22_ConversationStep ==
    \A u \in DOMAIN users, c \in AnyRowIds(chats) :
        get_chat_conversation(u, c) =>
            IF c \notin DOMAIN chats
            THEN last'.status = HTTP_404_NOT_FOUND
            ELSE IF u \notin {chats[c].worshiper_id, chats[c].leader_id}
            THEN last'.status = HTTP_403_FORBIDDEN
            ELSE /\ last'.status = HTTP_200_OK
                 /\ Len(last'.ret) = Cardinality(ChatMessages(c))
                 /\ {last'.ret[i] : i \in DOMAIN last'.ret} = ChatMessages(c)

\* C22, what the code does ensure: a participant gets every message of the
\* chat exactly once, in no particular order; a user who is no participant
\* is answered Forbidden, a missing chat id NotFound.
C22_AllMessages == [][C22_ConversationStep]_vars

\* C22 witness: a conversation was returned with a later message in front
\* of an earlier one.
C22_Witness ==
    /\ C22_Served
    /\ \E i, j \in DOMAIN last.ret :
          i < j /\ messages[last.ret[i]].created_at > messages[last.ret[j]].created_at

C23_FixedStep ==
    \A i \in DOMAIN posts : posts'[i] = posts[i]

C23_NeverShown ==
    \A p \in Range(posts) :
        ~p.is_published =>
            /\ \A viewer \in DOMAIN users, page \in FeedPages, size \in FeedPageSizes :
                  /\ \A feed \in get_explore_feed(viewer, page, size) :
                        \A i \in DOMAIN feed.posts : feed.posts[i].id # p.id
                  /\ \A feed \in get_following_feed(viewer, page, size) :
                        \A i \in DOMAIN feed.posts : feed.posts[i] # p.id
            /\ \A reflection \in get_daily_reflection : reflection.post # Some(p.id)

AddedNotifications == (Len(notifications) + 1)..Len(notifications')

C24_FanOutStep ==
    \A u \in DOMAIN users, t \in PostTexts, at \in ScheduleTimes :
        (create_leader_post(u, t, at) /\ last'.status = HTTP_201_CREATED) =>
            LET post == posts'[Len(posts) + 1]
                followers == {f.worshiper_id : f \in {g \in follows : g.leader_id = u}}
            IN  /\ SubSeq(notifications', 1, Len(notifications)) = notifications
                /\ IF post.is_published
                   THEN /\ Len(notifications') = Len(notifications) + Cardinality(followers)
                        /\ {notifications'[i].user_id : i \in AddedNotifications} = followers
                        /\ \A i \in AddedNotifications :
                              /\ notifications'[i].type = "new_post"
                              /\ notifications'[i].reference_type = Some("post")
                              /\ notifications'[i].reference_id = Some(post.id)
                              /\ ~notifications'[i].is_read
                   ELSE UNCHANGED notifications

C24_OnlyAtCreationStep ==
    \A i \in AddedNotifications :
        notifications'[i].type = "new_post" =>
            /\ last'.op = "create_post"
            /\ last'.status = HTTP_201_CREATED
            /\ notifications'[i].reference_id = Some(Len(posts) + 1)
            /\ Len(posts') = Len(posts) + 1
            /\ posts'[Len(posts')].is_published

C24_NoneForScheduled ==
    \A i \in DOMAIN notifications :
        notifications[i].type = "new_post" =>
            posts[notifications[i].reference_id[1]].is_published

\* C24: create_post by a leader, when the post is published at once, creates
\* exactly one new_post notification, referencing the new post, for each
\* worshiper who follows the leader at that moment and none for anyone else;
\* for a scheduled post it creates none, and none is created for it later.
C24_PostFanOut ==
    []C24_NoneForScheduled /\ [][C24_FanOutStep /\ C24_OnlyAtCreationStep]_vars

\* C24 witness: a post published at once has notified both followers of its
\* leader, while a scheduled post of the same leader whose instant has passed
\* has no notification.
C24_Witness ==
    /\ last.op = "create_post"
    /\ last.status = HTTP_201_CREATED
    /\ posts[last.args[1]].is_published
    /\ Cardinality({i \in DOMAIN notifications :
                       /\ notifications[i].type = "new_post"
                       /\ notifications[i].reference_id = Some(last.args[1])}) = 2
    /\ \E p \in Range(posts) :
          /\ ~p.is_published
          /\ p.scheduled_at[1] <= now
          /\ \A i \in DOMAIN notifications :
                notifications[i].reference_id # Some(p.id)

C25_UnfollowStep ==
    \A u \in DOMAIN users, l \in AnyIds :
        unfollow_leader_endpoint(u, l) => UNCHANGED <<chats, messages, notifications>>

C25_SendStep ==
    \A u \in DOMAIN users, c \in DOMAIN chats, t \in MessageTexts :
        (send_message_to_chat(u, c, t) /\ u \in {chats[c].worshiper_id, chats[c].leader_id}) =>
            /\ last'.status = HTTP_201_CREATED
            /\ Len(messages') = Len(messages) + 1
            /\ messages'[Len(messages')].chat_id = c
            /\ messages'[Len(messages')].sender_id = u
            /\ Len(notifications') = Len(notifications) + 1
            /\ notifications'[Len(notifications')].type = "new_message"
            /\ notifications'[Len(notifications')].user_id =
                   IF u = chats[c].worshiper_id THEN chats[c].leader_id
                                                ELSE chats[c].worshiper_id

C25_FirstMessageStep ==
    \A slot \in DOMAIN inflight, u \in Worshipers, l \in AnyIds, t \in MessageTexts :
        (send_first_message_lookup(slot, u, l, t) /\ ~is_following(follows, u, l)) =>
            /\ Visible(last') = <<HTTP_403_FORBIDDEN,
                                  "You must follow this leader to send messages">>
            /\ UNCHANGED <<chats, messages, notifications, inflight>>

C25_Refused ==
    /\ last.op = "send_first_message"
    /\ last.status = HTTP_403_FORBIDDEN
    /\ last.caller \in Worshipers
    /\ ChatRows(chats, last.caller, last.args[1]) # {}

\* A Follow row of the pair is created in this step.
C26_EdgeCreated(w, l) ==
    FollowRows(follows, w, l) = {} /\ FollowRows(follows', w, l) # {}

C26_CountStep ==
    \A w \in Worshipers, l \in Leaders :
        NewFollowerCount(notifications', l, users[w].name) =
            NewFollowerCount(notifications, l, users[w].name)
                + (IF C26_EdgeCreated(w, l) THEN 1 ELSE 0)

C26_CountsCreations ==
    /\ Cardinality({i \in DOMAIN notifications :
                       notifications[i].type = "new_follower"}) = follow_seq
    /\ \A w \in Worshipers, l \in Leaders : Cardinality(FollowRows(follows, w, l)) <= 1

\* C26: a leader gets one new_follower notification from a worshiper for
\* each time a Follow row of the pair is created, not one per distinct
\* follower: follow, unfollow, follow leaves two such notifications and one
\* Follow row.
C26_NotificationPerEdge == []C26_CountsCreations /\ [][C26_CountStep]_vars

\* C26 witness: after follow, unfollow, follow the leader holds two
\* new_follower notifications from the one worshiper who follows them, and
\* the pair has one Follow row.
C26_Witness ==
    \E w \in Worshipers, l \in Leaders :
        /\ NewFollowerCount(notifications, l, users[w].name) = 2
        /\ Cardinality(FollowRows(follows, w, l)) = 1
        /\ {f.worshiper_id : f \in {g \in follows : g.leader_id = l}} = {w}
        /\ last.op = "follow_leader"
        /\ last.ret = "new_follow"

\* The question_answered notifications that reference a question.
C27_AnswerNotifications(table, question_id) ==
    {i \in DOMAIN table : /\ table[i].type = "question_answered"
                          /\ table[i].reference_id = Some(question_id)}

C27_AnswerStep ==
    \A u \in DOMAIN users, q \in AnyRowIds(questions), t \in AnswerTexts :
        (answer_worshiper_question(u, q, t) /\ last'.status = HTTP_200_OK) =>
            /\ Len(notifications') = Len(notifications) + 1
            /\ SubSeq(notifications', 1, Len(notifications)) = notifications
            /\ notifications'[Len(notifications')].type = "question_answered"
            /\ notifications'[Len(notifications')].user_id = questions[q].worshiper_id
            /\ notifications'[Len(notifications')].reference_type = Some("question")
            /\ notifications'[Len(notifications')].reference_id = Some(q)
            /\ Cardinality(C27_AnswerNotifications(notifications', q)) =
                   Cardinality(C27_AnswerNotifications(notifications, q)) + 1

C27_OnlyAnswersStep ==
    \A q \in DOMAIN questions :
        C27_AnswerNotifications(notifications', q) # C27_AnswerNotifications(notifications, q)
            => /\ last'.op = "answer_question"
               /\ last'.status = HTTP_200_OK
               /\ last'.args = <<q>>

\* C27: every successful answer creates one question_answered notification
\* for the question's worshiper, referencing the question, also when the
\* question was answered before: n answers of one question leave n such
\* notifications.
C27_NotificationPerAnswer == [][C27_AnswerStep /\ C27_OnlyAnswersStep]_vars

\* C27 witness: a question answered for the second time has two
\* question_answered notifications.
C27_Witness ==
    /\ last.op = "answer_question"
    /\ last.status = HTTP_200_OK
    /\ last.before # None
    /\ last.before[1].answered
    /\ Cardinality(C27_AnswerNotifications(notifications, last.args[1])) = 2

C28_RoleStep ==
    \A u \in DOMAIN users : users'[u].role = users[u].role

C28_Row(row) ==
    /\ row.worshiper_id \in DOMAIN users
    /\ row.leader_id \in DOMAIN users
    /\ users[row.worshiper_id].role = WORSHIPER
    /\ users[row.leader_id].role = LEADER
    /\ row.worshiper_id # row.leader_id

C28_RowsTyped ==
    /\ \A f \in follows : C28_Row(f)
    /\ \A c \in Range(chats) : C28_Row(c)
    /\ \A q \in Range(questions) : C28_Row(q)
    /\ \A slot \in DOMAIN inflight : inflight[slot] # None => C28_Row(inflight[slot][1])

\* C28: no request changes a user's role (a profile update sets faith, bio
\* and profile photo only), and in every state every Follow, Chat and
\* Question row has a worshiper as worshiper_id and a leader as leader_id,
\* which are therefore two different users.
C28_RolesOfRows == []C28_RowsTyped /\ [][C28_RoleStep]_vars

\* C28 witness: a worshiper who follows a leader, has a chat with them and
\* has asked them a question has sent a profile update that names a role;
\* the bio was set.
C28_Witness ==
    /\ last.op = "update_profile"
    /\ last.caller \in Worshipers
    /\ users[last.caller].bio # None
    /\ \E f \in follows : f.worshiper_id = last.caller
    /\ \E c \in Range(chats) : c.worshiper_id = last.caller
    /\ \E q \in Range(questions) : q.worshiper_id = last.caller

C29_InsertStep ==
    \A slot \in DOMAIN inflight :
        follow_leader_insert(slot) =>
            LET req == inflight[slot][1] IN
            IF FollowRows(follows, req.worshiper_id, req.leader_id) # {}
            THEN /\ last'.status = HTTP_500_INTERNAL_SERVER_ERROR
                 /\ last'.detail = "IntegrityError"
                 /\ UNCHANGED <<follows, notifications>>
            ELSE /\ last'.status = HTTP_200_OK
                 /\ Cardinality(FollowRows(follows', req.worshiper_id, req.leader_id)) = 1
                 /\ NewFollowerCount(notifications', req.leader_id,
                                     users[req.worshiper_id].name)
                        = NewFollowerCount(notifications, req.leader_id,
                                           users[req.worshiper_id].name) + 1

C29_OneRowPerPair ==
    /\ \A w \in DOMAIN users, l \in DOMAIN users : Cardinality(FollowRows(follows, w, l)) <= 1
    /\ Cardinality({i \in DOMAIN notifications :
                       notifications[i].type = "new_follower"}) = follow_seq

\* C29: two follow requests of one pair can both pass the existence check;
\* the unique constraint lets one insert commit, so the pair has at most one
\* Follow row and each row created has one new_follower notification; the
\* request that loses ends in an integrity error and changes nothing.
C29_FollowRace == []C29_OneRowPerPair /\ [][C29_InsertStep]_vars

\* C29 witness: both requests passed the check with no edge, one inserted,
\* and the other has just ended in the integrity error: one row, one
\* notification.
C29_Witness ==
    /\ last.op = "follow_leader"
    /\ last.status = HTTP_500_INTERNAL_SERVER_ERROR
    /\ Cardinality(FollowRows(follows, last.caller, last.args[1])) = 1
    /\ NewFollowerCount(notifications, last.args[1], users[last.caller].name) = 1
    /\ follow_seq = 1

=============================================================================
